---- MODULE Spec2Model ----
(***************************************************************************)
(* AI response orchestration pipeline of CybinAI.                          *)
(*                                                                         *)
(*   backend/app/services/chat_service.py   turn policy (ChatService)      *)
(*   backend/app/services/ai_service.py     orchestrator + tool executor   *)
(*   backend/app/services/jobber/service.py CRM operations (JobberService) *)
(*   backend/app/services/llm/*.py          provider factory and parsers   *)
(*   backend/app/services/prompts/system.py system prompt                  *)
(*   backend/app/api/v1/endpoints/*.py      widget / agent endpoints       *)
(*                                                                         *)
(* Spec      one conversation driven through the widget endpoint; a turn   *)
(*           is split at its suspension points (LLM call, tool execution,  *)
(*           narrate call, persistence by the wrapper).                    *)
(* SpecTool  the Tool Executor (AIService.execute_tool_call) applied to    *)
(*           one tool call, with or without a database session.            *)
(* SpecLive  Spec with weak fairness of the orchestrator's own steps.      *)
(* SpecProvider  the response parser of one provider instance              *)
(*           (_parse_response of llm/deepseek.py and llm/openai.py)        *)
(*           applied to two responses of the provider's API.               *)
(* SpecContext  the context building of generate_response and              *)
(*           get_system_prompt applied to bounded arguments.               *)
(* SpecConcurrent  several calls of send_customer_message for one          *)
(*           conversation in flight at once.                               *)
(***************************************************************************)
EXTENDS Integers, Sequences, FiniteSets, TLC

VARIABLES
    tenant,         \* tenant.settings["ai"]: [ai_enabled, max_ai_turns]
    conversation,   \* Conversation row: [ai_handled, status, priority, assigned_to]
    messages,       \* Message rows of the conversation, oldest first
    pc,             \* position of the current turn
    turn1,          \* what the provider's complete did in turn 1
    ai_response,    \* the AIResponse being built / returned by generate_response
    tool_idx,       \* index of the next tool call of the for loop
    tool_results,   \* the local dict tool_results of generate_response
    results_summary,\* results_summary handed to the narrate call
    narrate,        \* what the narrate call did
    llm_calls,      \* calls of self.llm.complete made in this turn
    executed,       \* tool calls handed to execute_tool_call in this turn
    effects,        \* CRM mutations issued in this turn
    outcome,        \* how generate_response ended
    reply,          \* second component of send_customer_message's return value
    turn_start,     \* conversation row as send_customer_message found it
    orchestrator_calls, \* generate_response invocations in this conversation
    settings,       \* app.core.config.settings: [LLM_PROVIDER, DEEPSEEK_API_KEY]
    constructed,    \* AIService(...) constructions attempted in this conversation
    kb_block,       \* what get_context_for_query holds for the message in hand
    request,        \* the messages list built for the turn-1 call of complete
    parse_calls,    \* SpecProvider: calls of _parse_response, [data, result]
    ctx,            \* SpecContext: arguments and results of context building
    procs,          \* SpecConcurrent: the calls of send_customer_message in flight
    ex_call,        \* SpecTool: the tool call under execution
    ex_db,          \* SpecTool: AIService.db is set
    ex_out          \* SpecTool: what execute_tool_call did

vars == <<tenant, conversation, messages, pc, turn1, ai_response, tool_idx,
          tool_results, results_summary, narrate, llm_calls, executed, effects, outcome,
          reply, turn_start, orchestrator_calls, settings, constructed, kb_block,
          request, parse_calls, ctx, procs, ex_call, ex_db, ex_out>>

(***************************************************************************)
(* Bounds                                                                  *)
(***************************************************************************)
MaxCustomerMsgs == 3
\* tool calls in one answer of the provider: in the first turn of the
\* conversation, and in the turns after it
MaxToolCalls == 2
MaxLaterToolCalls == 1
MaxAiTurnsBound == 2

(***************************************************************************)
(* Values                                                                  *)
(***************************************************************************)
\* Python None
Null == "<None>"
\* a JSON value that is not a string (number, null, list)
NonString == "<non-string>"

Truthy(v) == v # Null /\ v # ""

\* dict as a set of <<key, value>> pairs; NotADict is a JSON value that
\* json.loads accepts but that has no .get (list, number, null)
EmptyMap == {}
NotADict == {<<"<not-a-dict>", "<not-a-dict>">>}
IsDict(a) == a # NotADict
Get(a, k, d) == IF \E p \in a : p[1] = k THEN (CHOOSE p \in a : p[1] = k)[2] ELSE d

ESCALATE == "escalate_to_human"
\* keys of TOOL_DEFINITIONS
TOOL_DEFINITIONS == {"schedule_appointment", "check_appointment_status",
                     "request_callback", "escalate_to_human", "search_knowledge_base"}
\* a name a misbehaving provider may return
UnknownToolName == "delete_everything"

ToolCall(n, a) == [name |-> n, arguments |-> a]

ToolExecutionResult(s, m, d, e) == [success |-> s, message |-> m, data |-> d, error |-> e]

(***************************************************************************)
(* CRM collaborator (Jobber).  A behaviour says what each call of the      *)
(* client does during one tool execution.                                  *)
(***************************************************************************)
CallFailures == {"api_error", "network"}

\* get_jobber_service returns None: no active integration, or an exception
\* (the integration lookup failed) that its except clause swallowed
NoService(b) == b.connected # "connected"
ServiceError(b) == IF b.connected = "lookup_error" THEN "lookup_error" ELSE Null

CrmBehaviours ==
    [connected      : {"connected", "not_connected", "lookup_error"},
     find           : {"found", "none"} \cup CallFailures,
     byname         : {"found", "none", "api_error"},
     create_client  : {"ok", "api_error"},
     create_request : {"ok"} \cup CallFailures,
     jobs           : {"some", "none", "api_error"}]

\* the fields a tool's execution reads; the others are pinned
CrmBehavioursFor(name) ==
    IF name \in {"schedule_appointment", "request_callback"}
    THEN {b \in CrmBehaviours : b.byname = "none" /\ b.jobs = "none"}
    ELSE IF name = "check_appointment_status"
    THEN {b \in CrmBehaviours : b.create_client = "ok" /\ b.create_request = "ok"}
    ELSE {b \in CrmBehaviours : b.connected = "connected" /\ b.find = "found"
                                /\ b.byname = "none" /\ b.create_client = "ok"
                                /\ b.create_request = "ok" /\ b.jobs = "none"}

\* dict payloads (ToolExecutionResult.data, JobberActionResult.data)
NoData == [present |-> FALSE, fallback |-> FALSE, request_id |-> Null, appointments |-> Null]
FallbackData == [present |-> TRUE, fallback |-> TRUE, request_id |-> Null, appointments |-> Null]
RequestData(id) == [present |-> TRUE, fallback |-> FALSE, request_id |-> id, appointments |-> Null]
SearchData == [present |-> TRUE, fallback |-> FALSE, request_id |-> Null, appointments |-> Null]
AppointmentData(a) == [present |-> TRUE, fallback |-> FALSE, request_id |-> Null, appointments |-> a]

JobberActionResult(s, d, e, eff) == [success |-> s, data |-> d, error |-> e, effects |-> eff]

\* JobberService._find_or_create_client: error is Null when a client is at hand
_find_or_create_client(b) ==
    IF b.find = "found" THEN [error |-> Null, effects |-> <<>>]
    ELSE IF b.find \in CallFailures THEN [error |-> b.find, effects |-> <<>>]
    ELSE IF b.create_client = "ok" THEN [error |-> Null, effects |-> <<"create_client">>]
    ELSE [error |-> b.create_client, effects |-> <<>>]

\* JobberService.schedule_appointment / create_callback_request: find or create
\* the client, then create the work request; every exception becomes a result
JobberCreateRequest(b) ==
    LET c == _find_or_create_client(b) IN
    IF c.error # Null THEN JobberActionResult(FALSE, NoData, c.error, c.effects)
    ELSE IF b.create_request # "ok"
         THEN JobberActionResult(FALSE, NoData, b.create_request, c.effects)
         ELSE JobberActionResult(TRUE, RequestData("request-1"), Null,
                                 c.effects \o <<"create_request">>)

schedule_appointment(b) == JobberCreateRequest(b)

create_callback_request(b) == JobberCreateRequest(b)

\* JobberService.check_appointment_status
check_appointment_status(customer_name, b) ==
    IF b.find \in CallFailures THEN JobberActionResult(FALSE, NoData, b.find, <<>>)
    ELSE LET client == IF b.find = "found" THEN "found"
                       ELSE IF Truthy(customer_name) THEN b.byname ELSE "none" IN
         IF client \in CallFailures THEN JobberActionResult(FALSE, NoData, client, <<>>)
         ELSE IF client = "none" THEN JobberActionResult(TRUE, AppointmentData("empty"), Null, <<>>)
         ELSE IF b.jobs = "api_error" THEN JobberActionResult(FALSE, NoData, b.jobs, <<>>)
         ELSE IF b.jobs = "none" THEN JobberActionResult(TRUE, AppointmentData("empty"), Null, <<>>)
         ELSE JobberActionResult(TRUE, AppointmentData("some"), Null, <<>>)

(***************************************************************************)
(* Tool Executor (ai_service.py).  A leaf either returns a result or       *)
(* raises; effects are the CRM mutations it issued.                        *)
(***************************************************************************)
NoResult == ToolExecutionResult(FALSE, Null, NoData, Null)
\* caught: the exception an except clause of the leaf caught, Null when none
Returned(r, eff, caught) ==
    [raised |-> FALSE, result |-> r, effects |-> eff, leaf_error |-> caught]
Raised(eff, caught) ==
    [raised |-> TRUE, result |-> NoResult, effects |-> eff, leaf_error |-> caught]

\* pydantic rejects a field that is not a string
SchemaRejects(args, keys) == \E k \in keys : Get(args, k, "") = NonString

ScheduledMsg == "Appointment scheduled! You'll receive a confirmation shortly."
ScheduleFailedMsg == "I had trouble creating the appointment in our system. Let me connect you with someone who can help."
ScheduleFallbackMsg == "Appointment request received! Our team will reach out to confirm the appointment time."
AppointmentFoundMsg == "I found your appointment!"
AppointmentNoneMsg == "I couldn't find any upcoming appointments for that phone number. Would you like to schedule a new appointment?"
AppointmentFailedMsg == "I had trouble looking up your appointment. Can you verify your phone number?"
AppointmentFallbackMsg == "I'm checking our system for your appointment. Our team will follow up with the details shortly."
CallbackSubmittedMsg == "Callback request submitted! Someone from our team will call you back during business hours."
CallbackFailedMsg == "I had trouble creating the callback request. Would you like to try again or speak with someone now?"
CallbackFallbackMsg == "Callback request received! Someone will call you back within 2 hours during business hours."
KnowledgeSearchMsg == "[Knowledge base search for: query]"
TransferredMsg == "Conversation transferred to human agent."
UnknownActionMsg == "Unknown action: name"
ToolIssueMsg == "I encountered an issue while processing that request."

\* mutant: the local fallback reports what went wrong in its error field
_fallback_schedule_appointment_WithError(args, caught) ==
    IF ~IsDict(args) THEN Raised(<<>>, "AttributeError")
    ELSE Returned(ToolExecutionResult(TRUE, ScheduleFallbackMsg, FallbackData,
                                      "crm unavailable"), <<>>, caught)

\* AIService._fallback_schedule_appointment (args.get raises on a non-dict)
_fallback_schedule_appointment(args, caught) ==
    IF ~IsDict(args) THEN Raised(<<>>, "AttributeError")
    ELSE Returned(ToolExecutionResult(TRUE, ScheduleFallbackMsg, FallbackData, Null), <<>>,
                  caught)

\* AIService._execute_schedule_appointment
_execute_schedule_appointment(args, db, b) ==
    IF ~db THEN _fallback_schedule_appointment(args, Null)
    ELSE IF NoService(b) THEN _fallback_schedule_appointment(args, ServiceError(b))
    ELSE IF ~IsDict(args) THEN _fallback_schedule_appointment(args, "AttributeError")
    ELSE IF SchemaRejects(args, {"customer_name", "phone", "email", "service_type",
                                 "preferred_date", "preferred_time",
                                 "issue_description", "address"})
         THEN _fallback_schedule_appointment(args, "ValidationError")
    ELSE LET result == schedule_appointment(b) IN
         IF result.success
         THEN Returned(ToolExecutionResult(TRUE, ScheduledMsg, result.data, Null),
                       result.effects, Null)
         ELSE Returned(ToolExecutionResult(FALSE, ScheduleFailedMsg, NoData, result.error),
                       result.effects, result.error)

\* mutant: the local fallback reports a failed lookup
_fallback_check_appointment_status_Fails(args, caught) ==
    Returned(ToolExecutionResult(FALSE, AppointmentFailedMsg, NoData, caught), <<>>, caught)

\* AIService._fallback_check_appointment_status
_fallback_check_appointment_status(args, caught) ==
    Returned(ToolExecutionResult(TRUE, AppointmentFallbackMsg, FallbackData, Null), <<>>,
             caught)

\* AIService._execute_check_appointment_status
_execute_check_appointment_status(args, db, b) ==
    IF ~db THEN _fallback_check_appointment_status(args, Null)
    ELSE IF NoService(b) THEN _fallback_check_appointment_status(args, ServiceError(b))
    ELSE IF ~IsDict(args) THEN _fallback_check_appointment_status(args, "AttributeError")
    ELSE IF SchemaRejects(args, {"phone", "name"})
         THEN _fallback_check_appointment_status(args, "ValidationError")
    ELSE LET result == check_appointment_status(Get(args, "name", Null), b) IN
         IF result.success /\ result.data.present
         THEN IF result.data.appointments = "some"
              THEN Returned(ToolExecutionResult(TRUE, AppointmentFoundMsg, result.data, Null),
                            result.effects, Null)
              ELSE Returned(ToolExecutionResult(TRUE, AppointmentNoneMsg,
                                                AppointmentData("empty"), Null),
                            result.effects, Null)
         ELSE Returned(ToolExecutionResult(FALSE, AppointmentFailedMsg, NoData, result.error),
                       result.effects, result.error)

\* AIService._fallback_request_callback (args.get raises on a non-dict)
_fallback_request_callback(args, caught) ==
    IF ~IsDict(args) THEN Raised(<<>>, "AttributeError")
    ELSE Returned(ToolExecutionResult(TRUE, CallbackFallbackMsg, FallbackData, Null), <<>>,
                  caught)

\* AIService._execute_request_callback
_execute_request_callback(args, db, b) ==
    IF ~db THEN _fallback_request_callback(args, Null)
    ELSE IF NoService(b) THEN _fallback_request_callback(args, ServiceError(b))
    ELSE IF ~IsDict(args) THEN _fallback_request_callback(args, "AttributeError")
    ELSE IF SchemaRejects(args, {"customer_name", "phone", "reason", "best_time"})
         THEN _fallback_request_callback(args, "ValidationError")
    ELSE LET result == create_callback_request(b) IN
         IF result.success
         THEN Returned(ToolExecutionResult(TRUE, CallbackSubmittedMsg, result.data, Null),
                       result.effects, Null)
         ELSE Returned(ToolExecutionResult(FALSE, CallbackFailedMsg, NoData, result.error),
                       result.effects, result.error)

\* AIService._execute_knowledge_base_search
_execute_knowledge_base_search(args) ==
    IF ~IsDict(args) THEN Raised(<<>>, "AttributeError")
    ELSE Returned(ToolExecutionResult(TRUE, KnowledgeSearchMsg, SearchData, Null), <<>>, Null)

\* mutant: a name outside the catalog is treated as a scheduling request
Dispatch_UnknownSchedules(call, db, b) ==
    IF call.name = "check_appointment_status"
    THEN _execute_check_appointment_status(call.arguments, db, b)
    ELSE IF call.name = "request_callback"
    THEN _execute_request_callback(call.arguments, db, b)
    ELSE IF call.name = "search_knowledge_base"
    THEN _execute_knowledge_base_search(call.arguments)
    ELSE IF call.name = ESCALATE
    THEN Returned(ToolExecutionResult(TRUE, TransferredMsg, NoData, Null), <<>>, Null)
    ELSE _execute_schedule_appointment(call.arguments, db, b)

\* the branch of execute_tool_call's if/elif chain taken for a tool call
Dispatch(call, db, b) ==
    IF call.name = "schedule_appointment"
    THEN _execute_schedule_appointment(call.arguments, db, b)
    ELSE IF call.name = "check_appointment_status"
    THEN _execute_check_appointment_status(call.arguments, db, b)
    ELSE IF call.name = "request_callback"
    THEN _execute_request_callback(call.arguments, db, b)
    ELSE IF call.name = "search_knowledge_base"
    THEN _execute_knowledge_base_search(call.arguments)
    ELSE IF call.name = ESCALATE
    THEN Returned(ToolExecutionResult(TRUE, TransferredMsg, NoData, Null), <<>>, Null)
    ELSE Returned(ToolExecutionResult(FALSE, UnknownActionMsg, NoData, "Tool not implemented"),
                  <<>>, Null)

\* the except clause of execute_tool_call
ToolExceptionResult(leaf) ==
    Returned(ToolExecutionResult(FALSE, ToolIssueMsg, NoData, leaf.leaf_error),
             leaf.effects, leaf.leaf_error)

\* mutant: no try/except around the dispatch
execute_tool_call_NoCatch(call, db, b) == Dispatch(call, db, b)

\* AIService.execute_tool_call
execute_tool_call(call, db, b) ==
    LET leaf == Dispatch(call, db, b) IN
    IF leaf.raised THEN ToolExceptionResult(leaf) ELSE leaf

(***************************************************************************)
(* Response Orchestrator (AIService.generate_response)                     *)
(***************************************************************************)
NoToolResults == [present |-> FALSE, map |-> [n \in {} |-> NoResult]]

AIResponse(c, tcs, ra, se, er, ep, tr, tok, cost, prov, mod) ==
    [content |-> c, tool_calls |-> tcs, requires_action |-> ra,
     should_escalate |-> se, escalation_reason |-> er, escalation_priority |-> ep,
     tool_results |-> tr, tokens_used |-> tok, estimated_cost |-> cost,
     provider |-> prov, model |-> mod]

\* value of the per-turn variable before _process_response has run
NoAIResponse == AIResponse("", <<>>, FALSE, FALSE, Null, Null, NoToolResults, 0, 0, "", "")

ProviderName == "deepseek"
ModelName == "deepseek-chat"

FallbackMsg == "I apologize, but I'm having trouble processing your request right now. Would you like me to have someone call you back?"

\* the AIResponse built by the except clause of generate_response
FallbackResponse ==
    AIResponse(FallbackMsg, <<>>, FALSE, FALSE, Null, Null, NoToolResults, 0, 0,
               ProviderName, "")

Names(calls) == {calls[i].name : i \in 1..Len(calls)}

\* LLMResponse.has_tool_calls
has_tool_calls(r) == Len(r.tool_calls) > 0

\* index of the first escalate_to_human call, 0 when there is none
FirstEscalation(calls) ==
    IF \E i \in 1..Len(calls) : calls[i].name = ESCALATE
    THEN CHOOSE i \in 1..Len(calls) :
            /\ calls[i].name = ESCALATE
            /\ \A j \in 1..(i - 1) : calls[j].name # ESCALATE
    ELSE 0

SchedulePlaceholder == "Let me schedule that appointment for you..."
CheckPlaceholder == "Let me look up your appointment..."
CallbackPlaceholder == "I'll arrange for someone to call you back..."
EscalatePlaceholder == "I'm connecting you with a team member who can better assist you. One moment please..."

\* mutant: the callback acknowledgment takes precedence
Placeholder_CallbackFirst(tool_names) ==
    IF "request_callback" \in tool_names THEN CallbackPlaceholder
    ELSE IF "schedule_appointment" \in tool_names THEN SchedulePlaceholder
    ELSE IF "check_appointment_status" \in tool_names THEN CheckPlaceholder
    ELSE IF ESCALATE \in tool_names THEN EscalatePlaceholder
    ELSE ""

\* the acknowledgment of _process_response when the provider sent no content
Placeholder(tool_names) ==
    IF "schedule_appointment" \in tool_names THEN SchedulePlaceholder
    ELSE IF "check_appointment_status" \in tool_names THEN CheckPlaceholder
    ELSE IF "request_callback" \in tool_names THEN CallbackPlaceholder
    ELSE IF ESCALATE \in tool_names THEN EscalatePlaceholder
    ELSE ""

\* _process_response raises when the escalation call's arguments have no .get
ProcessRaises(r) ==
    LET e == FirstEscalation(r.tool_calls) IN
    e > 0 /\ ~IsDict(r.tool_calls[e].arguments)

\* mutant: the acknowledgment replaces whatever the provider wrote
_process_response_AlwaysPlaceholder(r) ==
    LET e == FirstEscalation(r.tool_calls) IN
    AIResponse(
        Placeholder(Names(r.tool_calls)),
        r.tool_calls,
        has_tool_calls(r),
        e > 0,
        IF e > 0 THEN Get(r.tool_calls[e].arguments, "reason", "Customer requested human agent")
                 ELSE Null,
        IF e > 0 THEN Get(r.tool_calls[e].arguments, "priority", "normal") ELSE Null,
        NoToolResults,
        r.total_tokens, r.estimated_cost, r.provider, r.model)

\* AIService._process_response
_process_response(r) ==
    LET e == FirstEscalation(r.tool_calls)
        c == IF Truthy(r.content) THEN r.content ELSE ""
    IN AIResponse(
        IF c = "" /\ has_tool_calls(r) THEN Placeholder(Names(r.tool_calls)) ELSE c,
        r.tool_calls,
        has_tool_calls(r),
        e > 0,
        IF e > 0 THEN Get(r.tool_calls[e].arguments, "reason", "Customer requested human agent")
                 ELSE Null,
        IF e > 0 THEN Get(r.tool_calls[e].arguments, "priority", "normal") ELSE Null,
        NoToolResults,
        r.total_tokens, r.estimated_cost, r.provider, r.model)

\* mutant: the for loop has no `continue` for escalate_to_human
NextToolIdx_NoSkip(calls, i) == i

\* first index >= i of the for loop that is not skipped by `continue`
NextToolIdx(calls, i) ==
    IF \E j \in i..Len(calls) : calls[j].name # ESCALATE
    THEN CHOOSE j \in i..Len(calls) :
            /\ calls[j].name # ESCALATE
            /\ \A k \in i..(j - 1) : calls[k].name = ESCALATE
    ELSE Len(calls) + 1

\* tool_results[tool_call.name] = result
Put(tr, name, result) ==
    [present |-> TRUE,
     map |-> [n \in DOMAIN tr.map \cup {name} |-> IF n = name THEN result ELSE tr.map[n]]]

\* mutant: the summary is cut after the first tool call
SummaryOf_FirstOnly(calls, map) ==
    IF Len(calls) > 0 /\ calls[1].name \in DOMAIN map
    THEN <<[tool |-> calls[1].name, arguments |-> calls[1].arguments,
            result |-> map[calls[1].name]]>>
    ELSE <<>>

\* results_summary of _generate_follow_up_response
SummaryOf(calls, map) ==
    LET Keep(i) == calls[i].name \in DOMAIN map
        F[i \in 0..Len(calls)] ==
            IF i = 0 THEN <<>>
            ELSE IF Keep(i)
                 THEN Append(F[i - 1], [tool |-> calls[i].name,
                                        arguments |-> calls[i].arguments,
                                        result |-> map[calls[i].name]])
                 ELSE F[i - 1]
    IN F[Len(calls)]

(***************************************************************************)
(* What the provider may answer                                            *)
(***************************************************************************)
Turn1Text == "turn-1 text"
NarrationText == "narration text"

ScheduleArgs == {<<"customer_name", "Jane Doe">>, <<"phone", "555-1234">>,
                 <<"service_type", "AC repair">>}
BadScheduleArgs == {<<"customer_name", NonString>>, <<"phone", "555-1234">>}
CheckArgs == {<<"phone", "555-1234">>, <<"name", "Jane Doe">>}
CallbackArgs == {<<"customer_name", "Jane Doe">>, <<"phone", "555-1234">>,
                 <<"reason", "quote">>}
SearchArgs == {<<"query", "hours">>}
EscalateArgs == {<<"reason", "customer is upset">>, <<"priority", "urgent">>}
\* a priority outside the enum of the tool definition
EscalateArgsUnlisted == {<<"reason", "customer is upset">>, <<"priority", "critical">>}

\* the tool calls a turn-1 answer is built from
ToolCalls ==
    {ToolCall("schedule_appointment", a) : a \in {ScheduleArgs, BadScheduleArgs, NotADict}}
    \cup {ToolCall("check_appointment_status", a) : a \in {CheckArgs, {<<"phone", "555-1234">>}}}
    \cup {ToolCall("request_callback", CallbackArgs)}
    \cup {ToolCall("search_knowledge_base", SearchArgs)}
    \cup {ToolCall(ESCALATE, a) : a \in {EmptyMap, EscalateArgs, EscalateArgsUnlisted,
                                         NotADict}}
    \cup {ToolCall(UnknownToolName, EmptyMap)}

SeqsUpTo(S, n) == UNION {[1..k -> S] : k \in 0..n}

Usages == {[total_tokens |-> 120, estimated_cost |-> 34]}

\* LLMResponse of turn 1 (estimated_cost in millionths of a dollar)
LLMResponses ==
    {[content |-> c, tool_calls |-> tcs, total_tokens |-> u.total_tokens,
      estimated_cost |-> u.estimated_cost, provider |-> ProviderName, model |-> ModelName] :
        c \in {Null, Turn1Text},
        tcs \in SeqsUpTo(ToolCalls, IF MaxToolCalls > MaxLaterToolCalls
                                    THEN MaxToolCalls ELSE MaxLaterToolCalls),
        u \in Usages}

NoTurn1 == [status |-> "none", response |-> [content |-> Null, tool_calls |-> <<>>,
            total_tokens |-> 0, estimated_cost |-> 0, provider |-> "", model |-> ""]]

\* response.content of the narrate call
NarrateContents == {Null, "", NarrationText}

(***************************************************************************)
(* Conversation Turn Policy (ChatService) and the endpoints                *)
(***************************************************************************)
Message(sender, content, detail) ==
    [sender_type |-> sender, content |-> content, detail |-> detail]

NoMessage == Message(Null, Null, Null)

CustomerText == "customer message"
TeamMemberMsg == "A team member will be with you shortly."
HandOffMsg == "I think it would be best to connect you with one of our team members who can better assist you. Someone will be with you shortly!"
ApologyMsg == "I apologize, but I'm having a bit of trouble right now. Would you like me to have someone from our team call you back?"
EscalationNote == "Conversation escalated to human agent. Reason:"

\* keys of priority_map in _handle_escalation
priority_map == {"low", "normal", "high", "urgent"}

\* mutant: the enabled flag of the tenant's AI settings is not read
ai_enabled_Ignored(t) == TRUE

\* ai_settings.get("enabled", True)
ai_enabled(t) == t.ai_enabled

\* ChatService.start_conversation
NewConversation ==
    [ai_handled |-> TRUE, status |-> "open", priority |-> "normal", assigned_to |-> Null]

\* mutant: the newest AI message is not counted
_count_ai_turns_OffByOne(msgs) ==
    LET n == Cardinality({i \in 1..Len(msgs) : msgs[i].sender_type = "ai"}) IN
    IF n > 0 THEN n - 1 ELSE 0

\* ChatService._count_ai_turns
_count_ai_turns(msgs) == Cardinality({i \in 1..Len(msgs) : msgs[i].sender_type = "ai"})

CustomerMessages(msgs) == Cardinality({i \in 1..Len(msgs) : msgs[i].sender_type = "customer"})

\* mutant: the escalation leaves the conversation with the AI
_handle_escalation_KeepsAiHandled(conv, msgs, reason, priority) ==
    [conversation |-> [conv EXCEPT !.status = "pending"],
     messages |->
        Append(msgs, Message("system", EscalationNote,
                             IF Truthy(reason) THEN reason ELSE "Customer request"))]

\* ChatService._handle_escalation
_handle_escalation(conv, msgs, reason, priority) ==
    [conversation |->
        [conv EXCEPT !.ai_handled = FALSE,
                     !.status = "pending",
                     !.priority = IF Truthy(priority) /\ priority \in priority_map
                                  THEN priority ELSE @],
     messages |->
        Append(msgs, Message("system", EscalationNote,
                             IF Truthy(reason) THEN reason ELSE "Customer request"))]

\* mutant: the exception is not caught
GenerateResponseExcept_Reraise == [ai_response |-> NoAIResponse, outcome |-> "RAISED"]

\* the except clause of generate_response
GenerateResponseExcept == [ai_response |-> FallbackResponse, outcome |-> "ERROR_FALLBACK"]

EmptyResults == [n \in {} |-> NoResult]
\* usage reported by the provider for the narrate call, in the units of Usages
NarrateUsage == [total_tokens |-> 80, estimated_cost |-> 25]

NoNarrate == [status |-> "none", content |-> Null, total_tokens |-> 0, estimated_cost |-> 0]

\* what the narrate call of complete may do: raise, or answer
NarrateAnswers ==
    {[status |-> "raised", content |-> Null, total_tokens |-> 0, estimated_cost |-> 0]}
    \cup {[status |-> "returned", content |-> c,
           total_tokens |-> NarrateUsage.total_tokens,
           estimated_cost |-> NarrateUsage.estimated_cost] : c \in NarrateContents}
NoCall == ToolCall(Null, EmptyMap)
NoBehaviour == [connected |-> "unset", find |-> "unset", byname |-> "unset",
                create_client |-> "unset", create_request |-> "unset", jobs |-> "unset"]
NoOut == [status |-> "none", behaviour |-> NoBehaviour, raised |-> FALSE,
          result |-> NoResult, effects |-> <<>>, leaf_error |-> Null]

(***************************************************************************)
(* Provider selection (llm/factory.py) and AIService construction          *)
(***************************************************************************)
\* the names _register_all_providers registers
_providers == {"deepseek", "openai"}

UnknownProviderError == "Unknown LLM provider"
ApiKeyError == "API key not configured"

\* the key a provider's constructor reads from the settings
ApiKeyOf(cfg, name) ==
    IF name = "deepseek" THEN cfg.DEEPSEEK_API_KEY ELSE cfg.OPENAI_API_KEY

\* get_llm_provider() with no arguments: the configured name is looked up and
\* the provider's constructor runs; both raise ValueError
get_llm_provider(cfg) ==
    IF cfg.LLM_PROVIDER \notin _providers
    THEN [raised |-> TRUE, error |-> UnknownProviderError, provider_name |-> Null]
    ELSE IF ~Truthy(ApiKeyOf(cfg, cfg.LLM_PROVIDER))
    THEN [raised |-> TRUE, error |-> ApiKeyError, provider_name |-> Null]
    ELSE [raised |-> FALSE, error |-> Null, provider_name |-> cfg.LLM_PROVIDER]

\* AIService.__init__ as the wrapper calls it (no provider argument)
AIServiceInit(cfg) == get_llm_provider(cfg)

\* configurations of one process; the wrapper's conversations run with
\* DeepSeek as the working provider
Settings ==
    [LLM_PROVIDER : {"deepseek", "ollama"},
     DEEPSEEK_API_KEY : {"sk-key", Null},
     OPENAI_API_KEY : {Null}]

WorkingSettings ==
    [LLM_PROVIDER |-> "deepseek", DEEPSEEK_API_KEY |-> "sk-key", OPENAI_API_KEY |-> Null]

(***************************************************************************)
(* Context building (prompts/system.py, generate_response lines 112-131)   *)
(***************************************************************************)
KbBlock == "### Hours\nOpen 8-5"
KbBlocks == {Null, KbBlock}

\* additional_context the wrapper builds for the default response style
AdditionalContext == "Response Style: Maintain a professional, business-like tone."

\* mutant: the custom instructions come before the knowledge section
get_system_prompt_InstructionsFirst(additional_context, knowledge_base_context) ==
    <<[section |-> "base", text |-> Null],
      [section |-> "current_time", text |-> Null]>>
    \o (IF Truthy(additional_context)
        THEN <<[section |-> "additional_instructions", text |-> additional_context]>>
        ELSE <<>>)
    \o (IF Truthy(knowledge_base_context)
        THEN <<[section |-> "knowledge_base", text |-> knowledge_base_context]>>
        ELSE <<[section |-> "no_knowledge_base", text |-> Null]>>)

\* get_system_prompt: the parts joined by "\n", in order
get_system_prompt(additional_context, knowledge_base_context) ==
    <<[section |-> "base", text |-> Null],
      [section |-> "current_time", text |-> Null]>>
    \o (IF Truthy(knowledge_base_context)
        THEN <<[section |-> "knowledge_base", text |-> knowledge_base_context]>>
        ELSE <<[section |-> "no_knowledge_base", text |-> Null]>>)
    \o (IF Truthy(additional_context)
        THEN <<[section |-> "additional_instructions", text |-> additional_context]>>
        ELSE <<>>)

\* mutant: the window is taken from the oldest end (s[:n])
LastN_Oldest(s, n) == IF Len(s) <= n THEN s ELSE SubSeq(s, 1, n)

\* the last n elements of a sequence (s[-n:])
LastN(s, n) == IF Len(s) <= n THEN s ELSE SubSeq(s, Len(s) - n + 1, Len(s))

HistoryLimit == 10
ContextWindow == 10

\* ChatService._get_conversation_history: the newest rows, oldest first
_get_conversation_history(msgs) ==
    LET rows == LastN(msgs, HistoryLimit) IN
    [i \in 1..Len(rows) |->
        [role |-> IF rows[i].sender_type = "customer" THEN "user" ELSE "assistant",
         content |-> rows[i].content]]

\* the knowledge_context argument of the wrapper's generate_response call:
\* the call passes conversation_history and customer_message only
WrapperKnowledgeContext(kb) == Null

\* MessageRole(msg["role"]) if msg["role"] in ["user", "assistant"] else USER
RoleOf(msg) == IF msg.role \in {"user", "assistant"} THEN msg.role ELSE "user"

\* generate_response lines 112-131: the messages list of the turn-1 call
BuildMessages(conversation_history, customer_message, knowledge_context) ==
    LET window == LastN(conversation_history, ContextWindow) IN
    <<[role |-> "system",
       content |-> get_system_prompt(AdditionalContext, knowledge_context)]>>
    \o [i \in 1..Len(window) |-> [role |-> RoleOf(window[i]), content |-> window[i].content]]
    \o <<[role |-> "user", content |-> customer_message]>>

NoRequest == <<>>

\* no call of the context building under study, no call in flight
NoContext == [conversation_history |-> <<>>, customer_message |-> Null,
              knowledge_context |-> Null, additional_context |-> Null,
              system_prompt |-> <<>>, messages |-> <<>>, done |-> FALSE]
NoProcs == <<>>

\* mutant: the wrapper lets the exception through
send_customer_message_except_Reraise(e) == Message(Null, Null, Null)

\* the except clause of send_customer_message: the apology AI message
send_customer_message_except(e) == Message("ai", ApologyMsg, e)

\* per-turn state of a call chain that has not started or has been discarded
FreshTurn ==
    /\ turn1' = NoTurn1
    /\ ai_response' = NoAIResponse
    /\ tool_idx' = 0
    /\ tool_results' = EmptyResults
    /\ results_summary' = <<>>
    /\ narrate' = NoNarrate
    /\ llm_calls' = 0
    /\ executed' = <<>>
    /\ effects' = <<>>
    /\ outcome' = "NONE"
    /\ turn_start' = NewConversation
    /\ kb_block' = Null
    /\ request' = NoRequest

Init ==
    /\ tenant \in [ai_enabled : BOOLEAN, max_ai_turns : 1..MaxAiTurnsBound]
    /\ conversation = NewConversation
    /\ messages = <<>>
    /\ pc = "IDLE"
    /\ turn1 = NoTurn1
    /\ ai_response = NoAIResponse
    /\ tool_idx = 0
    /\ tool_results = EmptyResults
    /\ results_summary = <<>>
    /\ narrate = NoNarrate
    /\ llm_calls = 0
    /\ executed = <<>>
    /\ effects = <<>>
    /\ outcome = "NONE"
    /\ reply = NoMessage
    /\ turn_start = NewConversation
    /\ orchestrator_calls = 0
    /\ settings \in Settings
    /\ constructed = 0
    /\ kb_block = Null
    /\ request = NoRequest
    /\ parse_calls = <<>>
    /\ ctx = NoContext
    /\ procs = NoProcs
    /\ ex_call = NoCall
    /\ ex_db = FALSE
    /\ ex_out = NoOut

\* send_widget_message -> ChatService.send_customer_message, up to the point
\* where generate_response awaits the provider
send_widget_message ==
    /\ pc = "IDLE"
    /\ CustomerMessages(messages) < MaxCustomerMsgs
    /\ LET saved == Append(messages, Message("customer", CustomerText, Null)) IN
       IF ~ai_enabled(tenant)
       THEN LET esc == _handle_escalation(conversation, saved, "AI responses disabled", "normal")
                system_msg == Message("system", TeamMemberMsg, Null)
            IN /\ conversation' = esc.conversation
               /\ messages' = Append(esc.messages, system_msg)
               /\ reply' = system_msg
               /\ UNCHANGED <<pc, turn1, ai_response, tool_idx, tool_results,
                              results_summary, narrate, llm_calls, executed, effects,
                              outcome, turn_start, kb_block, request, orchestrator_calls, constructed>>
       ELSE IF _count_ai_turns(saved) >= tenant.max_ai_turns
       THEN LET esc == _handle_escalation(conversation, saved, "Maximum AI turns reached",
                                          "normal")
                suggest_msg == Message("ai", HandOffMsg, Null)
            IN /\ conversation' = esc.conversation
               /\ messages' = Append(esc.messages, suggest_msg)
               /\ reply' = suggest_msg
               /\ UNCHANGED <<pc, turn1, ai_response, tool_idx, tool_results,
                              results_summary, narrate, llm_calls, executed, effects,
                              outcome, turn_start, kb_block, request, orchestrator_calls, constructed>>
       ELSE LET ai_service == AIServiceInit(settings) IN
            IF ai_service.raised
            THEN LET ai_msg == send_customer_message_except(ai_service.error) IN
                 /\ messages' = IF ai_msg = NoMessage THEN saved ELSE Append(saved, ai_msg)
                 /\ reply' = ai_msg
                 /\ constructed' = constructed + 1
                 /\ UNCHANGED <<conversation, pc, turn1, ai_response, tool_idx,
                                tool_results, results_summary, narrate, llm_calls,
                                executed, effects, outcome, turn_start, kb_block,
                                request, orchestrator_calls>>
            ELSE \E kb \in KbBlocks :
                 /\ messages' = saved
                 /\ pc' = "BUILDING_CONTEXT"
                 /\ turn_start' = conversation
                 /\ kb_block' = kb
                 /\ constructed' = constructed + 1
                 /\ orchestrator_calls' = orchestrator_calls + 1
                 /\ reply' = NoMessage
                 /\ UNCHANGED <<conversation, turn1, ai_response, tool_idx, tool_results,
                                results_summary, narrate, llm_calls, executed, effects,
                                outcome, request>>
    /\ UNCHANGED <<tenant, settings, parse_calls, ctx, procs, ex_call, ex_db, ex_out>>

\* generate_response lines 112-131: the system prompt and the messages list
\* are built from the arguments the wrapper passed
build_context ==
    /\ pc = "BUILDING_CONTEXT"
    /\ request' = BuildMessages(_get_conversation_history(messages), CustomerText,
                                WrapperKnowledgeContext(kb_block))
    /\ pc' = "AWAITING_LLM_TURN1"
    /\ UNCHANGED <<tenant, settings, parse_calls, ctx, procs, conversation, messages, turn1, ai_response,
                   tool_idx, tool_results, results_summary, narrate, llm_calls, executed,
                   effects, outcome, reply, turn_start, kb_block, orchestrator_calls,
                   constructed, ex_call, ex_db, ex_out>>

ToolCallBudget ==
    IF CustomerMessages(messages) <= 1 THEN MaxToolCalls ELSE MaxLaterToolCalls

\* generate_response returns through its except clause
ToFallback ==
    /\ ai_response' = GenerateResponseExcept.ai_response
    /\ outcome' = GenerateResponseExcept.outcome
    /\ pc' = "RETURNED"

\* generate_response: the provider's complete answers (or raises) in turn 1,
\* _process_response runs, and the for loop skips leading escalation calls
llm_turn1 ==
    /\ pc = "AWAITING_LLM_TURN1"
    /\ llm_calls' = llm_calls + 1
    /\ \/ /\ turn1' = [NoTurn1 EXCEPT !.status = "raised"]
          /\ ToFallback
          /\ UNCHANGED <<tool_idx, tool_results>>
       \/ \E r \in LLMResponses :
            /\ Len(r.tool_calls) <= ToolCallBudget
            /\ turn1' = [status |-> "returned", response |-> r]
            /\ IF ProcessRaises(r)
               THEN ToFallback /\ UNCHANGED <<tool_idx, tool_results>>
               ELSE LET a == _process_response(r)
                        i == NextToolIdx(a.tool_calls, 1)
                    IN IF a.requires_action /\ Len(a.tool_calls) > 0
                       THEN IF i > Len(a.tool_calls)
                            THEN /\ ai_response' = [a EXCEPT !.tool_results =
                                        [present |-> TRUE, map |-> EmptyResults]]
                                 /\ outcome' = "DONE"
                                 /\ pc' = "RETURNED"
                                 /\ UNCHANGED <<tool_idx, tool_results>>
                            ELSE /\ ai_response' = a
                                 /\ tool_idx' = i
                                 /\ tool_results' = EmptyResults
                                 /\ pc' = "EXECUTING_TOOLS"
                                 /\ UNCHANGED outcome
                       ELSE /\ ai_response' = a
                            /\ outcome' = "DONE"
                            /\ pc' = "RETURNED"
                            /\ UNCHANGED <<tool_idx, tool_results>>
    /\ kb_block' = Null
    /\ UNCHANGED <<tenant, settings, parse_calls, ctx, procs, conversation, messages, results_summary,
                   narrate, executed, effects, reply, turn_start, request,
                   orchestrator_calls, constructed, ex_call, ex_db, ex_out>>

\* generate_response: one iteration of the for loop that awaits
\* execute_tool_call, then the skipped escalation calls that follow it; after
\* the last iteration the results are stored and the follow-up is prepared
execute_tools ==
    /\ pc = "EXECUTING_TOOLS"
    /\ LET calls == ai_response.tool_calls
           call == calls[tool_idx]
       IN \E b \in CrmBehavioursFor(call.name) :
            LET out == execute_tool_call(call, TRUE, b)
                next == NextToolIdx(calls, tool_idx + 1)
                results == Put([present |-> TRUE, map |-> tool_results], call.name,
                               out.result).map
                summary == SummaryOf(calls, results)
            IN /\ executed' = Append(executed, [call |-> call, result |-> out.result,
                                                raised |-> out.raised])
               /\ effects' = effects \o [k \in 1..Len(out.effects) |->
                                            [tool |-> call.name, op |-> out.effects[k]]]
               /\ IF out.raised
                  THEN ToFallback /\ UNCHANGED <<tool_idx, tool_results, results_summary>>
                  ELSE IF next <= Len(calls)
                  THEN /\ tool_results' = results
                       /\ tool_idx' = next
                       /\ UNCHANGED <<pc, ai_response, outcome, results_summary>>
                  ELSE /\ tool_results' = results
                       /\ tool_idx' = next
                       /\ ai_response' = [ai_response EXCEPT !.tool_results =
                                            [present |-> TRUE, map |-> results]]
                       /\ results_summary' = summary
                       /\ IF summary = <<>>
                          THEN outcome' = "DONE" /\ pc' = "RETURNED"
                          ELSE pc' = "AWAITING_LLM_TURN2" /\ UNCHANGED outcome
    /\ UNCHANGED <<tenant, settings, parse_calls, ctx, procs, conversation, messages, turn1, narrate, llm_calls, reply,
                   turn_start, kb_block, request, orchestrator_calls, constructed, ex_call, ex_db, ex_out>>

\* _generate_follow_up_response from the call of complete on: the content of
\* the answer, None when the call raised (the except clause logs and returns
\* None)
_generate_follow_up_response(n) == IF n.status = "raised" THEN Null ELSE n.content

\* mutant: the follow-up replaces the content whatever it is
ApplyFollowUp_Always(a, follow_up) ==
    [a EXCEPT !.content = IF Truthy(follow_up) THEN follow_up ELSE ""]

\* if follow_up: ai_response.content = follow_up
ApplyFollowUp(a, follow_up) ==
    IF Truthy(follow_up) THEN [a EXCEPT !.content = follow_up] ELSE a

\* mutant: the usage of the narrate call is added to the accounting
FollowUp_AddsUsage(a, n) ==
    [ApplyFollowUp(a, _generate_follow_up_response(n)) EXCEPT
        !.tokens_used = @ + n.total_tokens,
        !.estimated_cost = @ + n.estimated_cost]

\* follow_up = await self._generate_follow_up_response(...) and the
\* assignment under `if follow_up:`; nothing else of the answer is used
FollowUp(a, n) == ApplyFollowUp(a, _generate_follow_up_response(n))

\* _generate_follow_up_response: the narrate call answers or raises, and
\* generate_response replaces the content when a follow-up was produced
llm_turn2 ==
    /\ pc = "AWAITING_LLM_TURN2"
    /\ llm_calls' = llm_calls + 1
    /\ \E n \in NarrateAnswers :
          /\ narrate' = n
          /\ ai_response' = FollowUp(ai_response, n)
    /\ outcome' = "DONE"
    /\ pc' = "RETURNED"
    /\ UNCHANGED <<tenant, settings, parse_calls, ctx, procs, conversation, messages, turn1, tool_idx, tool_results,
                   results_summary, executed, effects, reply, turn_start, kb_block, request,
                   orchestrator_calls, constructed, ex_call, ex_db, ex_out>>

\* send_customer_message after generate_response has returned: escalation
\* side effects, the AI message, the return value; the call chain ends
persist_reply ==
    /\ pc = "RETURNED"
    /\ LET esc == IF ai_response.should_escalate
                  THEN _handle_escalation(conversation, messages,
                                          ai_response.escalation_reason,
                                          ai_response.escalation_priority)
                  ELSE [conversation |-> conversation, messages |-> messages]
           ai_msg == IF outcome = "RAISED"
                     THEN send_customer_message_except("generate_response raised")
                     ELSE Message("ai", ai_response.content, Null)
       IN IF outcome = "RAISED"
          THEN /\ messages' = IF ai_msg = NoMessage THEN messages
                                                     ELSE Append(messages, ai_msg)
               /\ reply' = ai_msg
               /\ UNCHANGED conversation
          ELSE /\ conversation' = esc.conversation
               /\ messages' = Append(esc.messages, ai_msg)
               /\ reply' = ai_msg
    /\ pc' = "IDLE"
    /\ FreshTurn
    /\ UNCHANGED <<tenant, settings, parse_calls, ctx, procs, orchestrator_calls, constructed, ex_call, ex_db, ex_out>>

\* assign_conversation / take_over_conversation (conversations.py)
assign_conversation ==
    /\ pc = "IDLE"
    /\ conversation' = [conversation EXCEPT
                            !.assigned_to = "agent-1",
                            !.ai_handled = FALSE,
                            !.status = IF @ = "pending" THEN "open" ELSE @]
    /\ UNCHANGED <<tenant, settings, parse_calls, ctx, procs, messages, pc, turn1, ai_response, tool_idx, tool_results,
                   results_summary, narrate, llm_calls, executed, effects, outcome,
                   reply, turn_start, kb_block, request, orchestrator_calls, constructed, ex_call, ex_db, ex_out>>

Next ==
    \/ send_widget_message
    \/ build_context
    \/ llm_turn1
    \/ execute_tools
    \/ llm_turn2
    \/ persist_reply
    \/ assign_conversation

Spec == Init /\ [][Next]_vars

\* every await of a turn ends: the provider and CRM calls carry timeouts
SpecLive ==
    /\ Spec
    /\ WF_vars(build_context)
    /\ WF_vars(llm_turn1)
    /\ WF_vars(execute_tools)
    /\ WF_vars(llm_turn2)

(***************************************************************************)
(* SpecTool: execute_tool_call on one tool call                            *)
(***************************************************************************)
ExecutorArgs == {ScheduleArgs, BadScheduleArgs, CheckArgs, {<<"phone", "555-1234">>},
                 {<<"phone", NonString>>}, CallbackArgs, SearchArgs, EscalateArgs,
                 EmptyMap, NotADict}

ExecutorCalls ==
    {ToolCall(n, a) : n \in TOOL_DEFINITIONS \cup {UnknownToolName}, a \in ExecutorArgs}

InitTool ==
    /\ tenant = [ai_enabled |-> TRUE, max_ai_turns |-> 1]
    /\ conversation = NewConversation
    /\ messages = <<>>
    /\ pc = "TOOL_CALL"
    /\ turn1 = NoTurn1
    /\ ai_response = NoAIResponse
    /\ tool_idx = 0
    /\ tool_results = EmptyResults
    /\ results_summary = <<>>
    /\ narrate = NoNarrate
    /\ llm_calls = 0
    /\ executed = <<>>
    /\ effects = <<>>
    /\ outcome = "NONE"
    /\ reply = NoMessage
    /\ turn_start = NewConversation
    /\ orchestrator_calls = 0
    /\ settings = WorkingSettings
    /\ constructed = 0
    /\ kb_block = Null
    /\ request = NoRequest
    /\ parse_calls = <<>>
    /\ ctx = NoContext
    /\ procs = NoProcs
    /\ ex_call \in ExecutorCalls
    /\ ex_db \in BOOLEAN
    /\ ex_out = NoOut

\* one call of AIService.execute_tool_call
run_execute_tool_call ==
    /\ pc = "TOOL_CALL"
    /\ \E b \in CrmBehavioursFor(ex_call.name) :
          LET out == execute_tool_call(ex_call, ex_db, b) IN
          ex_out' = [status |-> "returned", behaviour |-> b, raised |-> out.raised,
                     result |-> out.result, effects |-> out.effects,
                     leaf_error |-> out.leaf_error]
    /\ pc' = "TOOL_DONE"
    /\ UNCHANGED <<tenant, settings, parse_calls, ctx, procs, conversation, messages, turn1, ai_response, tool_idx,
                   tool_results, results_summary, narrate, llm_calls, executed, effects,
                   outcome, reply, turn_start, kb_block, request, orchestrator_calls, constructed, ex_call, ex_db>>

NextTool == run_execute_tool_call

SpecTool == InitTool /\ [][NextTool]_vars

(***************************************************************************)
(* Provider response parser (_parse_response).  The arguments of a tool    *)
(* call arrive as a string; json.loads is modelled by its value on each    *)
(* string of ArgumentStrings.  Costs are exact, in units of 10^-8 dollar   *)
(* (a price of 0.27 dollar per million tokens is 27 units per token).      *)
(***************************************************************************)
ArgObject == "{\"reason\": \"customer is upset\", \"priority\": \"urgent\"}"
ArgEmptyObject == "{}"
ArgTruncated == "{\"reason\": \"customer is"
ArgEmptyString == ""
ArgArray == "[1, 2]"
ArgNull == "null"
ArgNumber == "7"
ArgumentStrings ==
    {ArgObject, ArgEmptyObject, ArgTruncated, ArgEmptyString, ArgArray, ArgNull, ArgNumber}

JSONDecodeError == "JSONDecodeError"

\* json.loads(s) for a str s: the decoded value (any JSON value, not only an
\* object), or JSONDecodeError when s is not a JSON text
json_loads(s) ==
    IF s = ArgObject THEN [raised |-> Null, value |-> EscalateArgs]
    ELSE IF s = ArgEmptyObject THEN [raised |-> Null, value |-> EmptyMap]
    ELSE IF s \in {ArgArray, ArgNull, ArgNumber} THEN [raised |-> Null, value |-> NotADict]
    ELSE [raised |-> JSONDecodeError, value |-> Null]

\* try: arguments = json.loads(...)  except json.JSONDecodeError: arguments = {}
ParseArguments(s) ==
    LET r == json_loads(s) IN
    IF r.raised = Null THEN [raised |-> Null, arguments |-> r.value]
    ELSE IF r.raised = JSONDecodeError THEN [raised |-> Null, arguments |-> EmptyMap]
    ELSE [raised |-> r.raised, arguments |-> Null]

\* the loop over message["tool_calls"]
RECURSIVE ParseToolCalls(_)
ParseToolCalls(tcs) ==
    IF tcs = <<>> THEN [raised |-> Null, tool_calls |-> <<>>]
    ELSE LET a == ParseArguments(Head(tcs).arguments)
             rest == ParseToolCalls(Tail(tcs)) IN
         IF a.raised # Null THEN [raised |-> a.raised, tool_calls |-> <<>>]
         ELSE IF rest.raised # Null THEN rest
         ELSE [raised |-> Null,
               tool_calls |-> <<ToolCall(Head(tcs).name, a.arguments)>> \o rest.tool_calls]

\* price of one token, by provider and model
INPUT_COST_PER_M == 27
OUTPUT_COST_PER_M == 110
CACHED_INPUT_COST_PER_M == 7
PRICING ==
    [m \in {"gpt-4o-mini", "gpt-4o", "gpt-4-turbo"} |->
        IF m = "gpt-4o-mini" THEN [input |-> 15, output |-> 60]
        ELSE IF m = "gpt-4o" THEN [input |-> 250, output |-> 1000]
        ELSE [input |-> 1000, output |-> 3000]]

\* mutant: the completion tokens are left out of the DeepSeek estimate
DeepSeekCost_NoOutput(usage) ==
    LET prompt_tokens == Get(usage, "prompt_tokens", 0)
        cached_tokens == Get(usage, "prompt_cache_hit_tokens", 0)
        uncached_input == prompt_tokens - cached_tokens IN
    uncached_input * INPUT_COST_PER_M + cached_tokens * CACHED_INPUT_COST_PER_M

\* DeepSeekProvider._parse_response, estimated_cost
DeepSeekCost(usage) ==
    LET prompt_tokens == Get(usage, "prompt_tokens", 0)
        completion_tokens == Get(usage, "completion_tokens", 0)
        cached_tokens == Get(usage, "prompt_cache_hit_tokens", 0)
        uncached_input == prompt_tokens - cached_tokens IN
    uncached_input * INPUT_COST_PER_M
        + cached_tokens * CACHED_INPUT_COST_PER_M
        + completion_tokens * OUTPUT_COST_PER_M

\* OpenAIProvider._parse_response, estimated_cost; a model without an entry
\* is priced as gpt-4o-mini
OpenAICost(model, usage) ==
    LET prompt_tokens == Get(usage, "prompt_tokens", 0)
        completion_tokens == Get(usage, "completion_tokens", 0)
        pricing == IF model \in DOMAIN PRICING THEN PRICING[model] ELSE PRICING["gpt-4o-mini"] IN
    prompt_tokens * pricing.input + completion_tokens * pricing.output

\* _parse_response(self, data): the LLMResponse, or the exception it raises
_parse_response(self, data) ==
    LET parsed == IF data.has_tool_calls /\ data.tool_calls # <<>>
                  THEN ParseToolCalls(data.tool_calls)
                  ELSE [raised |-> Null, tool_calls |-> <<>>]
        prompt_tokens == Get(data.usage, "prompt_tokens", 0)
        completion_tokens == Get(data.usage, "completion_tokens", 0) IN
    IF parsed.raised # Null
    THEN [raised |-> parsed.raised, response |-> Null]
    ELSE [raised |-> Null,
          response |->
            [content |-> data.content,
             tool_calls |-> parsed.tool_calls,
             prompt_tokens |-> prompt_tokens,
             completion_tokens |-> completion_tokens,
             total_tokens |-> prompt_tokens + completion_tokens,
             estimated_cost |-> IF self.provider_name = "deepseek"
                                THEN DeepSeekCost(data.usage)
                                ELSE OpenAICost(self.model, data.usage),
             provider |-> self.provider_name,
             model |-> self.model]]

\* largest prompt and completion token count of a response
MaxTokens == 2

\* provider instances: the default models and the other priced ones
ProviderInstances ==
    {[provider_name |-> "deepseek", model |-> "deepseek-chat"]}
    \cup {[provider_name |-> "openai", model |-> m] :
            m \in {"gpt-4o-mini", "gpt-4o", "gpt-4-turbo", "o1-preview"}}

\* the usage object of an API response; the cache-hit count is part of the
\* prompt count, and the object may be missing
UsageObjects ==
    {EmptyMap}
    \cup {{<<"prompt_tokens", p>>, <<"completion_tokens", c>>, <<"prompt_cache_hit_tokens", h>>} :
            p \in 0..MaxTokens, c \in 0..MaxTokens, h \in 0..MaxTokens}

WellFormedUsage(u) ==
    Get(u, "prompt_cache_hit_tokens", 0) <= Get(u, "prompt_tokens", 0)

RawToolCall(n, s) == [name |-> n, arguments |-> s]

\* API responses without tool calls (the message has no "tool_calls" key, or
\* an empty list), over all usages
UsageResponses ==
    {[content |-> Turn1Text, has_tool_calls |-> h, tool_calls |-> <<>>, usage |-> u] :
        h \in BOOLEAN, u \in {x \in UsageObjects : WellFormedUsage(x)}}

\* API responses with tool calls, over all argument strings
ToolCallResponses ==
    {[content |-> Null, has_tool_calls |-> TRUE,
      tool_calls |-> <<RawToolCall(ESCALATE, s)>>,
      usage |-> {<<"prompt_tokens", 1>>, <<"completion_tokens", 1>>,
                 <<"prompt_cache_hit_tokens", 0>>}] : s \in ArgumentStrings}
    \cup {[content |-> Null, has_tool_calls |-> TRUE,
           tool_calls |-> <<RawToolCall("schedule_appointment", ArgEmptyObject),
                            RawToolCall(ESCALATE, s)>>,
           usage |-> EmptyMap] : s \in {ArgTruncated, ArgArray}}

ParseCall(self, data) == [self |-> self, data |-> data, result |-> _parse_response(self, data)]

InitProvider ==
    /\ tenant = [ai_enabled |-> TRUE, max_ai_turns |-> 1]
    /\ conversation = NewConversation
    /\ messages = <<>>
    /\ pc = "PARSE_FIRST"
    /\ turn1 = NoTurn1
    /\ ai_response = NoAIResponse
    /\ tool_idx = 0
    /\ tool_results = EmptyResults
    /\ executed = <<>>
    /\ effects = <<>>
    /\ results_summary = <<>>
    /\ narrate = NoNarrate
    /\ outcome = "NONE"
    /\ llm_calls = 0
    /\ reply = NoMessage
    /\ turn_start = NewConversation
    /\ orchestrator_calls = 0
    /\ settings = WorkingSettings
    /\ constructed = 0
    /\ kb_block = Null
    /\ request = NoRequest
    /\ parse_calls = <<>>
    /\ ctx = NoContext
    /\ procs = NoProcs
    /\ ex_call = NoCall
    /\ ex_db = FALSE
    /\ ex_out = NoOut

\* the first response a provider instance parses
parse_first ==
    /\ pc = "PARSE_FIRST"
    /\ \E self \in ProviderInstances, data \in UsageResponses \cup ToolCallResponses :
          parse_calls' = <<ParseCall(self, data)>>
    /\ pc' = "PARSE_SECOND"
    /\ UNCHANGED <<tenant, settings, ctx, procs, conversation, messages, turn1, ai_response,
                   tool_idx, tool_results, executed, effects, results_summary, narrate, outcome,
                   llm_calls, reply, turn_start, orchestrator_calls, constructed, kb_block,
                   request, ex_call, ex_db, ex_out>>

\* a later response parsed by the same instance
parse_second ==
    /\ pc = "PARSE_SECOND"
    /\ \E data \in UsageResponses :
          parse_calls' = Append(parse_calls, ParseCall(parse_calls[1].self, data))
    /\ pc' = "PARSE_DONE"
    /\ UNCHANGED <<tenant, settings, ctx, procs, conversation, messages, turn1, ai_response,
                   tool_idx, tool_results, executed, effects, results_summary, narrate, outcome,
                   llm_calls, reply, turn_start, orchestrator_calls, constructed, kb_block,
                   request, ex_call, ex_db, ex_out>>

NextProvider == parse_first \/ parse_second

SpecProvider == InitProvider /\ [][NextProvider]_vars

(***************************************************************************)
(* SpecContext: the context building of generate_response (lines 112-131)  *)
(* and get_system_prompt as functions of their arguments                   *)
(***************************************************************************)
\* entries of the longest conversation_history argument
MaxHistory == 12

\* the content of the i-th entry of a history, all different
HistoryContent(i) == <<"entry ", i>>

\* role of the i-th entry: customer and AI alternating, AI first, or with
\* every third entry under a role that is neither user nor assistant
RolePatterns == {"customer first", "assistant first", "with system notes"}
HistoryRole(i, p) ==
    IF p = "with system notes" /\ i % 3 = 0 THEN "system"
    ELSE IF (i % 2 = 1) = (p # "assistant first") THEN "user" ELSE "assistant"

History(n, p) == [i \in 1..n |-> [role |-> HistoryRole(i, p), content |-> HistoryContent(i)]]

Histories == {History(n, p) : n \in 0..MaxHistory, p \in RolePatterns}

\* the arguments of one call: a present or absent (None, "") excerpt and
\* custom instructions, a history, the customer's message
ContextArguments ==
    [conversation_history : Histories,
     customer_message : {HistoryContent(0)},
     knowledge_context : {Null, "", KbBlock},
     additional_context : {Null, "", AdditionalContext},
     system_prompt : {<<>>},
     messages : {<<>>},
     done : {FALSE}]

InitContext ==
    /\ tenant = [ai_enabled |-> TRUE, max_ai_turns |-> 1]
    /\ conversation = NewConversation
    /\ messages = <<>>
    /\ pc = "CONTEXT_CALL"
    /\ turn1 = NoTurn1
    /\ ai_response = NoAIResponse
    /\ tool_idx = 0
    /\ tool_results = EmptyResults
    /\ results_summary = <<>>
    /\ narrate = NoNarrate
    /\ llm_calls = 0
    /\ executed = <<>>
    /\ effects = <<>>
    /\ outcome = "NONE"
    /\ reply = NoMessage
    /\ turn_start = NewConversation
    /\ orchestrator_calls = 0
    /\ settings = WorkingSettings
    /\ constructed = 0
    /\ kb_block = Null
    /\ request = NoRequest
    /\ parse_calls = <<>>
    /\ ctx \in ContextArguments
    /\ procs = NoProcs
    /\ ex_call = NoCall
    /\ ex_db = FALSE
    /\ ex_out = NoOut

\* get_system_prompt and the message list are built from the arguments
build_messages ==
    /\ pc = "CONTEXT_CALL"
    /\ ctx' = [ctx EXCEPT
                 !.system_prompt = get_system_prompt(ctx.additional_context,
                                                     ctx.knowledge_context),
                 !.messages = BuildMessages(ctx.conversation_history, ctx.customer_message,
                                            ctx.knowledge_context),
                 !.done = TRUE]
    /\ pc' = "CONTEXT_DONE"
    /\ UNCHANGED <<tenant, settings, parse_calls, procs, conversation, messages, turn1,
                   ai_response, tool_idx, tool_results, executed, effects, results_summary,
                   narrate, outcome, llm_calls, reply, turn_start, orchestrator_calls,
                   constructed, kb_block, request, ex_call, ex_db, ex_out>>

NextContext == build_messages

SpecContext == InitContext /\ [][NextContext]_vars

(***************************************************************************)
(* SpecConcurrent: several calls of send_widget_message for one            *)
(* conversation in flight at once.  Each request has its own database      *)
(* session: the rows a call adds are flushed into its transaction and      *)
(* become visible to the other calls when the endpoint commits             *)
(* (widget.py 224); a call's queries see the committed rows and its own.   *)
(* A call is split at its awaits.                                          *)
(***************************************************************************)
\* requests in flight for the conversation
MaxProcs == 2
Procs == 1..MaxProcs

NewProc == [pc |-> "START", ai_turn_count |-> 0, pending |-> <<>>, escalated |-> FALSE]

\* what generate_response gave the wrapper: a reply, a reply that escalates,
\* or an exception
GenerateOutcomes == {"reply", "escalating reply", "raised"}

\* the conversation as its earlier, finished turns left it: none, or one
\* answered by the orchestrator
EarlierTurns ==
    {<<>>,
     <<Message("customer", CustomerText, Null), Message("ai", Turn1Text, Null)>>}

InitConcurrent ==
    /\ tenant \in [ai_enabled : {TRUE}, max_ai_turns : 1..MaxAiTurnsBound]
    /\ conversation = NewConversation
    /\ messages \in EarlierTurns
    /\ pc = "CONCURRENT"
    /\ turn1 = NoTurn1
    /\ ai_response = NoAIResponse
    /\ tool_idx = 0
    /\ tool_results = EmptyResults
    /\ results_summary = <<>>
    /\ narrate = NoNarrate
    /\ llm_calls = 0
    /\ executed = <<>>
    /\ effects = <<>>
    /\ outcome = "NONE"
    /\ reply = NoMessage
    /\ turn_start = NewConversation
    /\ orchestrator_calls = _count_ai_turns(messages)
    /\ settings = WorkingSettings
    /\ constructed = 0
    /\ kb_block = Null
    /\ request = NoRequest
    /\ parse_calls = <<>>
    /\ ctx = NoContext
    /\ procs = [p \in Procs |-> NewProc]
    /\ ex_call = NoCall
    /\ ex_db = FALSE
    /\ ex_out = NoOut

ConcurrentFrame ==
    UNCHANGED <<tenant, settings, parse_calls, ctx, pc, turn1, ai_response, tool_idx,
                tool_results, executed, effects, results_summary, narrate, outcome,
                llm_calls, reply, turn_start, constructed, kb_block, request,
                ex_call, ex_db, ex_out>>

\* rows a call's queries see: the committed ones and its own
VisibleTo(p) == messages \o procs[p].pending

\* send_customer_message: the customer message is added and flushed
conc_save_customer_message(p) ==
    /\ procs[p].pc = "START"
    /\ procs' = [procs EXCEPT ![p].pc = "SAVED",
                              ![p].pending = <<Message("customer", CustomerText, Null)>>]
    /\ UNCHANGED <<conversation, messages, orchestrator_calls>>
    /\ ConcurrentFrame

\* ai_turn_count = await self._count_ai_turns(conversation.id)
conc_count_ai_turns(p) ==
    /\ procs[p].pc = "SAVED"
    /\ procs' = [procs EXCEPT ![p].pc = "COUNTED",
                              ![p].ai_turn_count = _count_ai_turns(VisibleTo(p))]
    /\ UNCHANGED <<conversation, messages, orchestrator_calls>>
    /\ ConcurrentFrame

\* the circuit breaker test on the count read before: hand-off, or the
\* history is read, the service built and generate_response awaited
conc_check_max_ai_turns(p) ==
    /\ procs[p].pc = "COUNTED"
    /\ IF procs[p].ai_turn_count >= tenant.max_ai_turns
       THEN /\ procs' = [procs EXCEPT
                            ![p].pc = "RETURNED",
                            ![p].escalated = TRUE,
                            ![p].pending = @ \o <<Message("system", EscalationNote,
                                                          "Maximum AI turns reached"),
                                                  Message("ai", HandOffMsg, Null)>>]
            /\ UNCHANGED orchestrator_calls
       ELSE /\ procs' = [procs EXCEPT ![p].pc = "GENERATING"]
            /\ orchestrator_calls' = orchestrator_calls + 1
    /\ UNCHANGED <<conversation, messages>>
    /\ ConcurrentFrame

\* generate_response has returned (or raised): escalation, the AI message
conc_persist_reply(p) ==
    /\ procs[p].pc = "GENERATING"
    /\ \E o \in GenerateOutcomes :
          procs' = [procs EXCEPT
                      ![p].pc = "RETURNED",
                      ![p].escalated = (o = "escalating reply"),
                      ![p].pending =
                          @ \o (IF o = "escalating reply"
                                THEN <<Message("system", EscalationNote, "customer is upset")>>
                                ELSE <<>>)
                            \o <<IF o = "raised"
                                 THEN send_customer_message_except("generate_response raised")
                                 ELSE Message("ai", Turn1Text, Null)>>]
    /\ UNCHANGED <<conversation, messages, orchestrator_calls>>
    /\ ConcurrentFrame

\* send_widget_message: await db.commit()
conc_commit(p) ==
    /\ procs[p].pc = "RETURNED"
    /\ messages' = messages \o procs[p].pending
    /\ conversation' = IF procs[p].escalated
                       THEN [conversation EXCEPT !.ai_handled = FALSE, !.status = "pending"]
                       ELSE conversation
    /\ procs' = [procs EXCEPT ![p].pc = "COMMITTED", ![p].pending = <<>>]
    /\ UNCHANGED orchestrator_calls
    /\ ConcurrentFrame

NextConcurrent ==
    \E p \in Procs :
        \/ conc_save_customer_message(p)
        \/ conc_count_ai_turns(p)
        \/ conc_check_max_ai_turns(p)
        \/ conc_persist_reply(p)
        \/ conc_commit(p)

SpecConcurrent == InitConcurrent /\ [][NextConcurrent]_vars

(***************************************************************************)
(* Properties                                                              *)
(***************************************************************************)
Returned1 == pc = "RETURNED" /\ turn1.status = "returned"

\* number of AI-authored messages of the conversation
AiAuthored(msgs) == Cardinality({i \in 1..Len(msgs) : msgs[i].sender_type = "ai"})

HasKey(a, k) == \E p \in a : p[1] = k

\* C1 (total fallback): when the provider's complete raises in turn 1,
\* generate_response returns (it does not raise) a result with non-empty
\* content, requires_action = false, should_escalate = false, no tool calls
\* and zero tokens_used and estimated_cost.
C1_TotalFallback ==
    (pc = "RETURNED" /\ turn1.status = "raised") =>
        /\ outcome = "ERROR_FALLBACK"
        /\ Truthy(ai_response.content)
        /\ ~ai_response.requires_action
        /\ ~ai_response.should_escalate
        /\ ai_response.tool_calls = <<>>
        /\ ai_response.tokens_used = 0
        /\ ai_response.estimated_cost = 0

C1_Witness ==
    pc = "RETURNED" /\ turn1.status = "raised" /\ ai_response.content = FallbackMsg

\* the turn-1 answer holds an escalate_to_human call and some other call
EscalationAlongside(calls) ==
    /\ \E i \in 1..Len(calls) : calls[i].name = ESCALATE
    /\ \E i \in 1..Len(calls) : calls[i].name # ESCALATE

\* C2 (escalation isolation): when the turn-1 answer holds an
\* escalate_to_human call alongside other tool calls, the returned
\* tool_results has no key "escalate_to_human", should_escalate is true and
\* escalation_reason / escalation_priority are that call's reason / priority
\* arguments.
C2_EscalationIsolation ==
    (Returned1 /\ EscalationAlongside(turn1.response.tool_calls)) =>
        LET calls == turn1.response.tool_calls
            args == calls[FirstEscalation(calls)].arguments
        IN /\ ESCALATE \notin DOMAIN ai_response.tool_results.map
           /\ ai_response.should_escalate
           /\ HasKey(args, "reason") => ai_response.escalation_reason = Get(args, "reason", Null)
           /\ HasKey(args, "priority") =>
                    ai_response.escalation_priority = Get(args, "priority", Null)

\* C3 (narration gating): when the turn-1 answer has no tool calls,
\* generate_response calls complete exactly once, makes no narrate call, and
\* returns the turn-1 content as it is (the empty string when the provider
\* sent none).
C3_NarrationGating ==
    (Returned1 /\ Len(turn1.response.tool_calls) = 0) =>
        /\ llm_calls = 1
        /\ narrate.status = "none"
        /\ ai_response.content =
              IF turn1.response.content = Null THEN "" ELSE turn1.response.content

C3_Witness ==
    /\ Returned1
    /\ Len(turn1.response.tool_calls) = 0
    /\ ai_response.content = Turn1Text

\* C4 (circuit breaker): once the conversation holds max_ai_turns AI-authored
\* messages, the next customer message does not reach the orchestrator: the
\* call ends at once, the conversation is human-handled and pending and the
\* reply is the hand-off message; so generate_response is invoked at most
\* max_ai_turns times in a conversation.
C4_CircuitBreaker ==
    /\ [][(/\ pc = "IDLE"
           /\ AiAuthored(messages) >= tenant.max_ai_turns
           /\ CustomerMessages(messages') > CustomerMessages(messages))
          => (/\ pc' = "IDLE"
              /\ orchestrator_calls' = orchestrator_calls
              /\ llm_calls' = 0
              /\ ~conversation'.ai_handled
              /\ conversation'.status = "pending"
              /\ reply' = Message("ai", HandOffMsg, Null))]_vars
    /\ [](orchestrator_calls <= tenant.max_ai_turns)

C4_Witness ==
    /\ pc = "IDLE"
    /\ reply = Message("ai", HandOffMsg, Null)
    /\ orchestrator_calls = tenant.max_ai_turns
    /\ AiAuthored(messages) > tenant.max_ai_turns

\* every tool call of the turn-1 answer is an escalate_to_human call
PureEscalation(calls) ==
    Len(calls) > 0 /\ \A i \in 1..Len(calls) : calls[i].name = ESCALATE

\* the arguments of the first escalate_to_human call are not a JSON object
EscalationArgsNotAMap(calls) ==
    FirstEscalation(calls) > 0 /\ ~IsDict(calls[FirstEscalation(calls)].arguments)

\* C5 as stated: the narrate call is made iff a non-escalation tool produced a
\* result, and a turn whose only tool calls are escalate_to_human makes one
\* LLM call and ends with the canned escalation acknowledgment as content.
C5_PureEscalationCanned ==
    Returned1 =>
        /\ (narrate.status # "none") <=> (Len(executed) > 0)
        /\ PureEscalation(turn1.response.tool_calls) =>
              /\ llm_calls = 1
              /\ narrate.status = "none"
              /\ ai_response.content = EscalatePlaceholder

\* C5 (narrate iff a tool produced a result): the narrate call is made iff a
\* non-escalation tool was executed and produced a result (then complete was
\* called twice, otherwise once); a turn whose only tool calls are
\* escalate_to_human executes nothing, makes no narrate call, and its content
\* is the turn-1 content when the provider sent some, the canned escalation
\* acknowledgment when it sent none, and the fallback apology when the
\* escalation call's arguments are not a JSON object.
C5_NarrateIffToolResult ==
    Returned1 =>
        LET calls == turn1.response.tool_calls IN
        /\ (narrate.status # "none") <=>
              (\E i \in 1..Len(executed) :
                  executed[i].call.name # ESCALATE /\ ~executed[i].raised)
        /\ llm_calls = IF narrate.status # "none" THEN 2 ELSE 1
        /\ PureEscalation(calls) =>
              /\ executed = <<>>
              /\ narrate.status = "none"
              /\ ai_response.content =
                    IF EscalationArgsNotAMap(calls) THEN FallbackMsg
                    ELSE IF Truthy(turn1.response.content) THEN turn1.response.content
                    ELSE EscalatePlaceholder

C5_Witness ==
    /\ Returned1
    /\ PureEscalation(turn1.response.tool_calls)
    /\ ai_response.should_escalate
    /\ narrate.status = "none"
    /\ ai_response.content = Turn1Text

\* C6 as stated: a customer message sent through the widget while the
\* conversation is human-handled (ai_handled = false) is only saved: the
\* orchestrator is not invoked and no AI-authored message is added.
C6_HumanHandledNoAI ==
    [][(/\ pc = "IDLE"
        /\ ~conversation.ai_handled
        /\ CustomerMessages(messages') > CustomerMessages(messages))
       => (/\ pc' = "IDLE"
           /\ orchestrator_calls' = orchestrator_calls
           /\ AiAuthored(messages') = AiAuthored(messages))]_vars

UnknownFailure ==
    ToolExecutionResult(FALSE, UnknownActionMsg, NoData, "Tool not implemented")

HasUnknownCall(calls) == \E i \in 1..Len(calls) : calls[i].name \notin TOOL_DEFINITIONS

\* C7 as stated: a tool call whose name is not in the catalog causes no CRM
\* mutation, its result has success = false and error = "not implemented"
\* without raising, and the turn completes with the narrate call.
C7_UnknownToolNotImplemented ==
    /\ \A i \in 1..Len(executed) :
          executed[i].call.name \notin TOOL_DEFINITIONS =>
              /\ ~executed[i].raised
              /\ ~executed[i].result.success
              /\ executed[i].result.error = "not implemented"
    /\ \A i \in 1..Len(effects) : effects[i].tool \in TOOL_DEFINITIONS
    /\ (Returned1 /\ HasUnknownCall(turn1.response.tool_calls)) =>
          outcome = "DONE" /\ narrate.status # "none"

\* C7 (unknown tool): a tool call whose name is not in the catalog causes no
\* CRM mutation; when the orchestrator executes it the result is success =
\* false, message "Unknown action: <name>", error = "Tool not implemented",
\* nothing is raised, and the turn completes with that failure in the
\* narrate call's summary; the orchestrator does not execute it (and returns
\* the fallback apology) when the same answer holds an escalate_to_human call
\* whose arguments are not a JSON object.
C7_UnknownTool ==
    /\ \A i \in 1..Len(executed) :
          executed[i].call.name \notin TOOL_DEFINITIONS =>
              ~executed[i].raised /\ executed[i].result = UnknownFailure
    /\ \A i \in 1..Len(effects) : effects[i].tool \in TOOL_DEFINITIONS
    /\ (Returned1 /\ HasUnknownCall(turn1.response.tool_calls)) =>
          IF EscalationArgsNotAMap(turn1.response.tool_calls)
          THEN outcome = "ERROR_FALLBACK" /\ executed = <<>> /\ narrate.status = "none"
          ELSE /\ outcome = "DONE"
               /\ narrate.status # "none"
               /\ \E k \in 1..Len(results_summary) :
                     /\ results_summary[k].tool \notin TOOL_DEFINITIONS
                     /\ results_summary[k].result = UnknownFailure
               /\ ai_response.tool_results.map[UnknownToolName] = UnknownFailure

C7_Witness ==
    /\ Returned1
    /\ outcome = "DONE"
    /\ narrate.status = "returned"
    /\ \E i \in 1..Len(executed) :
          executed[i].call.name = UnknownToolName /\ executed[i].result = UnknownFailure
    /\ ai_response.content = NarrationText

\* the generate_response invocation is running (it has not returned)
Generating ==
    pc \in {"BUILDING_CONTEXT", "AWAITING_LLM_TURN1", "EXECUTING_TOOLS", "AWAITING_LLM_TURN2"}

\* the step saves a customer message
CustomerMessageSaved == CustomerMessages(messages') > CustomerMessages(messages)

\* C11 (AI disabled): with the tenant's AI setting disabled, a customer
\* message constructs no AIService, invokes neither generate_response nor the
\* LLM, leaves the conversation human-handled and returns the system message
\* "A team member will be with you shortly."; so a tenant with AI disabled
\* never has an orchestrator constructed or invoked.
C11_AiDisabled ==
    /\ [][(pc = "IDLE" /\ ~tenant.ai_enabled /\ CustomerMessageSaved)
          => (/\ pc' = "IDLE"
              /\ constructed' = constructed
              /\ orchestrator_calls' = orchestrator_calls
              /\ llm_calls' = 0
              /\ ~conversation'.ai_handled
              /\ reply' = Message("system", TeamMemberMsg, Null)
              /\ messages'[Len(messages')] = reply')]_vars
    /\ [](~tenant.ai_enabled =>
             constructed = 0 /\ orchestrator_calls = 0 /\ llm_calls = 0 /\ pc = "IDLE")

C11_Witness ==
    /\ ~tenant.ai_enabled
    /\ pc = "IDLE"
    /\ reply = Message("system", TeamMemberMsg, Null)
    /\ ~conversation.ai_handled
    /\ conversation.status = "pending"

\* a system note of _handle_escalation was appended by the step
NoteAppended ==
    \E i \in (Len(messages) + 1)..Len(messages') :
        messages'[i].sender_type = "system" /\ messages'[i].content = EscalationNote

\* the wrapper's step after generate_response returned, the priority the
\* conversation ends with given as a parameter
WrapperEscalation(priority) ==
    IF ai_response.should_escalate
    THEN /\ ~conversation'.ai_handled
         /\ conversation'.status = "pending"
         /\ conversation'.priority = priority
         /\ conversation'.assigned_to = conversation.assigned_to
         /\ NoteAppended
    ELSE conversation' = conversation /\ ~NoteAppended

AnyGivenPriority(given, old) == IF Truthy(given) THEN given ELSE old
ListedPriority(given, old) ==
    IF given \in {"low", "normal", "high", "urgent"} THEN given ELSE old

\* C12 as stated: generate_response changes nothing of the conversation; the
\* wrapper then marks it human-handled and pending, sets the priority when
\* one is given and appends a system note iff should_escalate, and otherwise
\* leaves it unchanged.
C12_PrioritySetWhenGiven ==
    /\ [][Generating => (conversation' = conversation /\ messages' = messages)]_vars
    /\ [][(pc = "RETURNED") =>
            WrapperEscalation(AnyGivenPriority(ai_response.escalation_priority,
                                               conversation.priority))]_vars

\* C12 (escalation side effects): generate_response changes neither the
\* conversation row nor its messages; after it returns, the wrapper marks the
\* conversation human-handled and pending, sets the priority when the given
\* one is low, normal, high or urgent (any other value leaves the priority as
\* it was) and appends a system note iff should_escalate; otherwise status,
\* ai_handled and priority are unchanged and no note is appended.
C12_EscalationSideEffects ==
    /\ [][Generating => (conversation' = conversation /\ messages' = messages)]_vars
    /\ [][(pc = "RETURNED") =>
            WrapperEscalation(ListedPriority(ai_response.escalation_priority,
                                             conversation.priority))]_vars

C12_Witness ==
    /\ pc = "IDLE"
    /\ reply.sender_type = "ai"
    /\ ~conversation.ai_handled
    /\ conversation.status = "pending"
    /\ conversation.priority = "urgent"
    /\ \E i \in 1..Len(messages) :
          messages[i].content = EscalationNote /\ messages[i].detail = "customer is upset"

\* C13 as stated: the content generate_response returns, and every
\* AI-authored message the wrapper persists, is non-empty.
C13_NoEmptyReply ==
    /\ pc = "RETURNED" => Truthy(ai_response.content)
    /\ \A i \in 1..Len(messages) :
          messages[i].sender_type = "ai" => Truthy(messages[i].content)

\* C14 (turn-policy total fallback): whatever the settings and the
\* conversation state, once send_customer_message has returned the customer
\* message is persisted and the reply is a persisted message with content
\* (AI reply, hand-off, system message or apology): a failure to construct
\* the provider or to generate the response does not leave the wrapper
\* without a reply.
C14_WrapperTotalFallback ==
    (pc = "IDLE" /\ messages # <<>>) =>
        /\ CustomerMessages(messages) > 0
        /\ reply # NoMessage
        /\ reply.sender_type \in {"ai", "system"}
        /\ reply.content # Null
        /\ \E i \in 1..Len(messages) : messages[i] = reply
        /\ get_llm_provider(settings).raised =>
              (reply.content \in {ApologyMsg, TeamMemberMsg, HandOffMsg}
               /\ orchestrator_calls = 0)

C14_Witness ==
    /\ pc = "IDLE"
    /\ settings.LLM_PROVIDER = "ollama"
    /\ constructed > 0
    /\ reply = Message("ai", ApologyMsg, UnknownProviderError)

\* C15 as stated: generate_response ends in DONE or ERROR_FALLBACK, and a
\* failure at any point of the turn (the turn-1 call, the narrate call) gives
\* the fallback result.
C15_FallbackFromEveryState ==
    pc = "RETURNED" =>
        /\ outcome \in {"DONE", "ERROR_FALLBACK"}
        /\ (turn1.status = "raised" \/ narrate.status = "raised") =>
              outcome = "ERROR_FALLBACK" /\ ai_response = FallbackResponse

\* C15 (the orchestrator never throws): every invocation of generate_response
\* returns, in DONE or in ERROR_FALLBACK and in no other way; ERROR_FALLBACK
\* is entered from AWAITING_LLM_TURN1 only (the turn-1 call raised, or the
\* answer could not be processed) and never after a tool was executed; a
\* failure while executing tools becomes a tool result and a failure of the
\* narrate call keeps the turn-1 content, both ending in DONE.
C15_NeverThrows ==
    /\ [](Generating => outcome = "NONE")
    /\ [](pc = "RETURNED" => outcome \in {"DONE", "ERROR_FALLBACK"})
    /\ []((pc = "RETURNED" /\ outcome = "ERROR_FALLBACK") =>
             /\ ai_response = FallbackResponse
             /\ executed = <<>>
             /\ narrate.status = "none"
             /\ \/ turn1.status = "raised"
                \/ EscalationArgsNotAMap(turn1.response.tool_calls))
    /\ []((pc = "RETURNED" /\ narrate.status = "raised") =>
             /\ outcome = "DONE"
             /\ ai_response.content = _process_response(turn1.response).content)
    /\ [][(pc \in {"BUILDING_CONTEXT", "EXECUTING_TOOLS", "AWAITING_LLM_TURN2"})
            => (outcome' # "ERROR_FALLBACK")]_vars
    /\ (pc = "BUILDING_CONTEXT" ~> pc = "RETURNED")

C15_Witness ==
    /\ pc = "RETURNED"
    /\ outcome = "DONE"
    /\ narrate.status = "raised"
    /\ \E i \in 1..Len(executed) : ~executed[i].result.success

\* C16 as stated: in every result of generate_response, requires_action iff
\* the turn-1 answer held a tool call, and should_escalate iff one of them is
\* escalate_to_human.
C16_FlagsIff ==
    Returned1 =>
        LET calls == turn1.response.tool_calls IN
        /\ ai_response.requires_action <=> Len(calls) > 0
        /\ ai_response.should_escalate <=> \E i \in 1..Len(calls) : calls[i].name = ESCALATE

\* C18 as stated: an unknown provider name is a start-up error: no customer
\* turn is processed with it, and no turn fails because of it.
C18_UnknownProviderAtStartup ==
    settings.LLM_PROVIDER \notin _providers =>
        /\ constructed = 0
        /\ \A i \in 1..Len(messages) : messages[i].detail # UnknownProviderError

\* the system message of the turn-1 request
SystemPrompt == request[1].content

\* C20 as stated: when get_context_for_query holds a text block for the
\* customer's message, the system prompt of the turn-1 call has that block in
\* its knowledge-base section and not the no-excerpt instructions.
C20_KnowledgeExcerpt ==
    (pc = "AWAITING_LLM_TURN1" /\ kb_block # Null) =>
        /\ \E k \in 1..Len(SystemPrompt) :
              SystemPrompt[k] = [section |-> "knowledge_base", text |-> kb_block]
        /\ \A k \in 1..Len(SystemPrompt) : SystemPrompt[k].section # "no_knowledge_base"

\* the calls handed to execute_tool_call in this turn, in order
ExecutedCalls == [i \in 1..Len(executed) |-> executed[i].call]

\* the calls of an answer that the for loop does not skip
NonEscalation(calls) == SelectSeq(calls, LAMBDA c : c.name # ESCALATE)

IsPrefix(s, t) == Len(s) <= Len(t) /\ s = SubSeq(t, 1, Len(s))

\* the narrate call has been prepared or made
NarrateIssued == pc = "AWAITING_LLM_TURN2" \/ narrate.status # "none"

\* C21 (ordering within a turn): a tool is executed only after the turn-1
\* call has returned, and only calls of its tool-call list; while tools are
\* executed no narrate call has been made; when the narrate call is issued
\* every non-escalation call of the list has been executed, and the summary
\* handed to it names every executed tool, each entry with a result that an
\* executed call of that name produced.
C21_Ordering ==
    /\ (Len(executed) > 0) =>
          /\ turn1.status = "returned"
          /\ IsPrefix(ExecutedCalls, NonEscalation(turn1.response.tool_calls))
    /\ (pc = "EXECUTING_TOOLS") => (narrate.status = "none" /\ llm_calls = 1)
    /\ NarrateIssued =>
          /\ ExecutedCalls = NonEscalation(turn1.response.tool_calls)
          /\ {results_summary[k].tool : k \in 1..Len(results_summary)} = Names(ExecutedCalls)
          /\ \A k \in 1..Len(results_summary) :
                \E i \in 1..Len(executed) :
                    /\ executed[i].call.name = results_summary[k].tool
                    /\ executed[i].result = results_summary[k].result

C21_Witness ==
    /\ pc = "RETURNED"
    /\ narrate.status = "returned"
    /\ Len(executed) = 2
    /\ executed[1].call.name # executed[2].call.name
    /\ Len(results_summary) = 2

\* the narrate call raised or answered without content
NarrationFailed ==
    \/ narrate.status = "raised"
    \/ narrate.status = "returned" /\ ~Truthy(narrate.content)

\* the AIResponse as it stands after the for loop over the tool calls
AfterToolExecution ==
    [_process_response(turn1.response) EXCEPT
        !.tool_results = [present |-> TRUE, map |-> tool_results]]

\* C22 (narration failure degrades gracefully): when the narrate call raised
\* or returned no content, generate_response returns in DONE with the
\* content of _process_response (the turn-1 content or the acknowledgment)
\* and with requires_action, tool_calls, tool_results, should_escalate and
\* the accounting fields as they were after tool execution.
C22_NarrationFailure ==
    (pc = "RETURNED" /\ NarrationFailed) =>
        /\ outcome = "DONE"
        /\ ai_response = AfterToolExecution
        /\ ai_response.content = _process_response(turn1.response).content
        /\ ai_response.tool_results.map = tool_results
        /\ DOMAIN tool_results = Names(ExecutedCalls)

C22_Witness ==
    /\ pc = "RETURNED"
    /\ narrate.status = "raised"
    /\ outcome = "DONE"
    /\ ai_response.content = SchedulePlaceholder
    /\ ai_response.should_escalate
    /\ "schedule_appointment" \in DOMAIN ai_response.tool_results.map

\* ai_response.content is what _process_response put there: the turn-1
\* answer was processed and no narration has replaced the content
Step3Content ==
    /\ pc \in {"EXECUTING_TOOLS", "AWAITING_LLM_TURN2", "RETURNED"}
    /\ turn1.status = "returned"
    /\ outcome # "ERROR_FALLBACK"
    /\ ~Truthy(_generate_follow_up_response(narrate))

RecognizedNames ==
    {"schedule_appointment", "check_appointment_status", "request_callback", ESCALATE}

\* the acknowledgment associated with one tool name
PlaceholderOfName(n) ==
    IF n = "schedule_appointment" THEN SchedulePlaceholder
    ELSE IF n = "check_appointment_status" THEN CheckPlaceholder
    ELSE IF n = "request_callback" THEN CallbackPlaceholder
    ELSE EscalatePlaceholder

\* C23 as stated: without turn-1 content the acknowledgment is that of the
\* first call, in the order the provider returned them, whose name is
\* recognized; turn-1 content is kept unchanged.
C23_FirstCallInOrder ==
    Step3Content =>
        LET r == turn1.response
            calls == r.tool_calls IN
        /\ Truthy(r.content) => (ai_response.content = r.content)
        /\ (~Truthy(r.content) /\ Len(calls) > 0) =>
              \A i \in 1..Len(calls) :
                  (/\ calls[i].name \in RecognizedNames
                   /\ \A j \in 1..(i - 1) : calls[j].name \notin RecognizedNames)
                  => (ai_response.content = PlaceholderOfName(calls[i].name))

\* C23 (placeholder synthesis): when the processed turn-1 answer has tool
\* calls and no content, the acknowledgment is chosen by a fixed precedence
\* over the names present, whatever the order of the calls: scheduling, then
\* appointment lookup, then callback, then escalation, and the empty string
\* when none of these names is present; turn-1 content is kept unchanged.
\* An answer whose escalation call has arguments that are not a map is not
\* processed: the result is the fallback response.
C23_FixedPrecedence ==
    /\ (pc = "RETURNED" /\ turn1.status = "returned"
            /\ EscalationArgsNotAMap(turn1.response.tool_calls)) =>
          (ai_response = FallbackResponse)
    /\ Step3Content =>
        LET r == turn1.response
            names == Names(r.tool_calls) IN
        /\ Truthy(r.content) => (ai_response.content = r.content)
        /\ (~Truthy(r.content) /\ Len(r.tool_calls) > 0) =>
              /\ ("schedule_appointment" \in names) =>
                    (ai_response.content = SchedulePlaceholder)
              /\ ("schedule_appointment" \notin names
                    /\ "check_appointment_status" \in names) =>
                    (ai_response.content = CheckPlaceholder)
              /\ ({"schedule_appointment", "check_appointment_status"} \cap names = {}
                    /\ "request_callback" \in names) =>
                    (ai_response.content = CallbackPlaceholder)
              /\ ({"schedule_appointment", "check_appointment_status",
                   "request_callback"} \cap names = {} /\ ESCALATE \in names) =>
                    (ai_response.content = EscalatePlaceholder)
              /\ (RecognizedNames \cap names = {}) => (ai_response.content = "")

C23_Witness ==
    /\ Step3Content
    /\ pc = "RETURNED"
    /\ turn1.response.content = Null
    /\ Len(turn1.response.tool_calls) = 2
    /\ turn1.response.tool_calls[1].name = "request_callback"
    /\ turn1.response.tool_calls[2].name = "schedule_appointment"
    /\ ai_response.content = SchedulePlaceholder

\* an agent has taken the conversation over
HumanHandled ==
    /\ ~conversation.ai_handled
    /\ conversation.assigned_to # Null
    /\ conversation.status = "open"

\* C24 as stated: a customer message arriving through the widget for a
\* conversation an agent has taken over appends the customer message and
\* nothing else: status, priority, ai_handled and assignment are unchanged,
\* no system or AI message is appended and no AI turn is started.
C24_HumanHandledFrame ==
    [][(/\ pc = "IDLE"
        /\ HumanHandled
        /\ CustomerMessages(messages') > CustomerMessages(messages))
       => (/\ messages' = Append(messages, Message("customer", CustomerText, Null))
           /\ conversation' = conversation
           /\ pc' = "IDLE")]_vars

\* index of the last executed call with the given tool name
LastExecuted(name) ==
    CHOOSE i \in 1..Len(executed) :
        /\ executed[i].call.name = name
        /\ \A j \in (i + 1)..Len(executed) : executed[j].call.name # name

\* C28 as stated: when generate_response returns for a turn-1 answer, every
\* non-escalation tool call of that answer has been executed exactly once, in
\* the order of the answer, and tool_results has exactly one entry per
\* distinct non-escalation tool name, holding the result of the last
\* executed call with that name.
C28_RepeatedToolNames ==
    Returned1 =>
        LET calls == NonEscalation(turn1.response.tool_calls)
            map == ai_response.tool_results.map IN
        /\ ExecutedCalls = calls
        /\ DOMAIN map = Names(calls)
        /\ \A n \in DOMAIN map : map[n] = executed[LastExecuted(n)].result

\* entries of a message list that carry a customer's message
UserEntries(list) == Cardinality({k \in 1..Len(list) : list[k].role = "user"})

\* C29 as stated: in the message list of the turn-1 call the new customer
\* message appears exactly once, as the final user message, and the history
\* part of the list is made of the messages that precede it: every customer
\* message of the conversation is in the list once.
C29_CustomerMessageOnce ==
    (pc = "AWAITING_LLM_TURN1") =>
        LET history == SubSeq(request, 2, Len(request) - 1)
            preceding == SubSeq(messages, 1, Len(messages) - 1) IN
        /\ request[Len(request)] = [role |-> "user", content |-> CustomerText]
        /\ history = LastN(_get_conversation_history(preceding), ContextWindow)
        /\ (Len(messages) <= ContextWindow) =>
              (UserEntries(request) = CustomerMessages(messages))

\* C30 (accounting covers turn 1 only): in every result of generate_response
\* that is not the fallback, tokens_used, estimated_cost, provider and model
\* are those of the turn-1 LLM response, whether or not a narrate call was
\* made; the usage of the narrate call is not added.
C30_AccountingTurn1Only ==
    (pc = "RETURNED" /\ outcome = "DONE") =>
        /\ ai_response.tokens_used = turn1.response.total_tokens
        /\ ai_response.estimated_cost = turn1.response.estimated_cost
        /\ ai_response.provider = turn1.response.provider
        /\ ai_response.model = turn1.response.model

C30_Witness ==
    /\ pc = "RETURNED"
    /\ outcome = "DONE"
    /\ narrate.status = "returned"
    /\ narrate.total_tokens > 0
    /\ ai_response.content = NarrationText
    /\ ai_response.tokens_used = 120
    /\ ai_response.model = ModelName

(***************************************************************************)
(* Properties of SpecTool                                                  *)
(***************************************************************************)
ToolReturned(name) == pc = "TOOL_DONE" /\ ex_call.name = name

\* the argument keys a tool's parameter schema is built from
ParamKeys(name) ==
    IF name = "schedule_appointment"
    THEN {"customer_name", "phone", "email", "service_type", "preferred_date",
          "preferred_time", "issue_description", "address"}
    ELSE IF name = "check_appointment_status" THEN {"phone", "name"}
    ELSE IF name = "request_callback" THEN {"customer_name", "phone", "reason", "best_time"}
    ELSE {}

\* a field of the call's arguments that the parameter schema rejects
ArgsRejected(call) ==
    \E p \in call.arguments : p[1] \in ParamKeys(call.name) /\ p[2] = NonString

\* the leaf reached the Jobber service: session, service and parameters exist
ReachedCrm ==
    /\ ex_db
    /\ ex_out.behaviour.connected = "connected"
    /\ IsDict(ex_call.arguments)
    /\ ~ArgsRejected(ex_call)

\* the failure the find-or-create-client / create-request sequence ends
\* with, Null when it goes through
CreateFailure(b) ==
    IF b.find \in CallFailures THEN b.find
    ELSE IF b.find = "none" /\ b.create_client # "ok" THEN b.create_client
    ELSE IF b.create_request # "ok" THEN b.create_request
    ELSE Null

\* the CRM leg did not produce a work request
CrmLegFailed == ~ReachedCrm \/ CreateFailure(ex_out.behaviour) # Null

\* C8 as stated: however the CRM leg of schedule_appointment fails, the
\* result has success = true, a populated error field and the message that
\* confirms receipt.
C8_ScheduleAlwaysSucceeds ==
    (ToolReturned("schedule_appointment") /\ CrmLegFailed) =>
        /\ ex_out.result.success
        /\ ex_out.result.error # Null
        /\ ex_out.result.message = ScheduleFallbackMsg

\* C8 (scheduling with the CRM down): with an argument map, when there is no
\* database session, no Jobber service can be obtained or the parameters are
\* rejected, the result is the local fallback: success = true, the
\* receipt-confirming message, data marked fallback, error empty, no CRM
\* mutation requested by a request; when a call of the Jobber service fails
\* (network failure or API error) the result is success = false with the
\* failure in error and the "had trouble" message; with arguments that are
\* not a JSON object the result is the executor's generic failure.
C8_ScheduleCrmDown ==
    (ToolReturned("schedule_appointment") /\ CrmLegFailed) =>
        /\ ~ex_out.raised
        /\ \A k \in 1..Len(ex_out.effects) : ex_out.effects[k] # "create_request"
        /\ ex_out.result =
              IF ~IsDict(ex_call.arguments)
              THEN ToolExecutionResult(FALSE, ToolIssueMsg, NoData, "AttributeError")
              ELSE IF ~ReachedCrm
              THEN ToolExecutionResult(TRUE, ScheduleFallbackMsg, FallbackData, Null)
              ELSE ToolExecutionResult(FALSE, ScheduleFailedMsg, NoData,
                                       CreateFailure(ex_out.behaviour))

C8_Witness ==
    /\ ToolReturned("schedule_appointment")
    /\ ex_db
    /\ ex_out.behaviour.connected = "not_connected"
    /\ ex_out.result.success
    /\ ex_out.result.error = Null
    /\ ex_out.result.message = ScheduleFallbackMsg

\* the client the status lookup ends with: "found", "none" or a failure
LookupClient(args, b) ==
    IF b.find \in CallFailures \/ b.find = "found" THEN b.find
    ELSE IF HasKey(args, "name") THEN b.byname ELSE "none"

NoMatch(args, b) ==
    \/ LookupClient(args, b) = "none"
    \/ LookupClient(args, b) = "found" /\ b.jobs = "none"

LookupFailure(args, b) ==
    IF LookupClient(args, b) \in CallFailures THEN LookupClient(args, b)
    ELSE IF LookupClient(args, b) = "found" /\ b.jobs = "api_error" THEN b.jobs
    ELSE Null

\* C9 as stated: with the CRM reachable and nothing matching the result is
\* success = true with an empty appointment list; when the lookup fails (no
\* session, not connected, a raising or failing CRM call) the result is
\* success = false with the retry message.
C9_LookupFailureIsFailure ==
    ToolReturned("check_appointment_status") =>
        /\ (ReachedCrm /\ NoMatch(ex_call.arguments, ex_out.behaviour)) =>
              ex_out.result.success /\ ex_out.result.data.appointments = "empty"
        /\ (~ReachedCrm \/ LookupFailure(ex_call.arguments, ex_out.behaviour) # Null) =>
              ~ex_out.result.success /\ ex_out.result.message = AppointmentFailedMsg

\* C9 (status lookup outcomes): with the Jobber service reached, no matching
\* client or job gives success = true with an empty appointment list, and a
\* failing Jobber call gives success = false with the failure in error and
\* the verify-your-phone-number message; when the service is not reached (no
\* database session, no service obtained, arguments rejected or not a JSON
\* object) the result is the local fallback with success = true.
C9_CheckStatusOutcomes ==
    ToolReturned("check_appointment_status") =>
        LET args == ex_call.arguments
            b == ex_out.behaviour
        IN /\ ~ex_out.raised
           /\ ex_out.effects = <<>>
           /\ ex_out.result =
                 IF ~ReachedCrm
                 THEN ToolExecutionResult(TRUE, AppointmentFallbackMsg, FallbackData, Null)
                 ELSE IF LookupFailure(args, b) # Null
                 THEN ToolExecutionResult(FALSE, AppointmentFailedMsg, NoData,
                                          LookupFailure(args, b))
                 ELSE IF NoMatch(args, b)
                 THEN ToolExecutionResult(TRUE, AppointmentNoneMsg,
                                          AppointmentData("empty"), Null)
                 ELSE ToolExecutionResult(TRUE, AppointmentFoundMsg,
                                          AppointmentData("some"), Null)

C9_Witness ==
    /\ ToolReturned("check_appointment_status")
    /\ ex_db
    /\ ex_out.behaviour.connected = "lookup_error"
    /\ ex_out.result.success
    /\ ex_out.result.message = AppointmentFallbackMsg

\* messages of failed executions
FailureMessages ==
    {ScheduleFailedMsg, AppointmentFailedMsg, CallbackFailedMsg, UnknownActionMsg,
     ToolIssueMsg}

\* the canned texts execute_tool_call answers with
CustomerMessagesOfTools ==
    FailureMessages \cup
    {ScheduledMsg, ScheduleFallbackMsg, AppointmentFoundMsg, AppointmentNoneMsg,
     AppointmentFallbackMsg, CallbackSubmittedMsg, CallbackFallbackMsg,
     KnowledgeSearchMsg, TransferredMsg}

\* C10 as stated: execute_tool_call never raises, and whenever an exception
\* was raised on the way the result has success = false and a failure
\* message.
C10_LeafExceptionIsFailure ==
    pc = "TOOL_DONE" =>
        /\ ~ex_out.raised
        /\ ex_out.leaf_error # Null =>
              ~ex_out.result.success /\ ex_out.result.message \in FailureMessages

\* C10 (executor boundary): execute_tool_call never raises and always
\* returns a result with one of its canned messages; a failing call of the
\* Jobber service (network failure, API error) and an exception that leaves
\* the leaf (arguments that are not a JSON object, for every tool but
\* check_appointment_status) give success = false with the exception text in
\* error only; an exception the leaf itself catches (the service lookup
\* failed, the parameters were rejected) gives the local fallback with
\* success = true and an empty error.
C10_ExecutorBoundary ==
    pc = "TOOL_DONE" =>
        /\ ~ex_out.raised
        /\ ex_out.result.message \in CustomerMessagesOfTools
        /\ ex_out.leaf_error \in CallFailures =>
              /\ ~ex_out.result.success
              /\ ex_out.result.message \in FailureMessages
              /\ ex_out.result.error = ex_out.leaf_error
        /\ (/\ ~IsDict(ex_call.arguments)
            /\ ex_call.name \in {"schedule_appointment", "request_callback",
                                 "search_knowledge_base"}) =>
              ex_out.result =
                  ToolExecutionResult(FALSE, ToolIssueMsg, NoData, "AttributeError")
        /\ (/\ ex_out.leaf_error \in {"lookup_error", "ValidationError"}
            /\ IsDict(ex_call.arguments)) =>
              /\ ex_out.result.success
              /\ ex_out.result.data.fallback
              /\ ex_out.result.error = Null

C10_Witness ==
    /\ pc = "TOOL_DONE"
    /\ ex_call.name = "request_callback"
    /\ ex_out.leaf_error = "network"
    /\ ~ex_out.raised
    /\ ex_out.result = ToolExecutionResult(FALSE, CallbackFailedMsg, NoData, "network")

(***************************************************************************)
(* Properties of SpecProvider                                              *)
(***************************************************************************)
\* the tool calls of the k-th parsed response, as sent and as parsed
SentToolCalls(k) == parse_calls[k].data.tool_calls
ParsedToolCalls(k) == parse_calls[k].result.response.tool_calls

\* C17 as stated: whatever the arguments string of a tool call (a JSON
\* object, malformed JSON, JSON that is not an object), the parser does not
\* raise and the parsed tool call's arguments is a key-value map, the empty
\* map when the string is not well-formed.
C17_ArgumentsAlwaysMap ==
    \A k \in 1..Len(parse_calls) :
        /\ parse_calls[k].result.raised = Null
        /\ \A i \in 1..Len(ParsedToolCalls(k)) :
              /\ IsDict(ParsedToolCalls(k)[i].arguments)
              /\ (json_loads(SentToolCalls(k)[i].arguments).raised # Null) =>
                    (ParsedToolCalls(k)[i].arguments = EmptyMap)

\* the token counts of the k-th parsed response
PromptTokens(k) == Get(parse_calls[k].data.usage, "prompt_tokens", 0)
CompletionTokens(k) == Get(parse_calls[k].data.usage, "completion_tokens", 0)
CachedTokens(k) == Get(parse_calls[k].data.usage, "prompt_cache_hit_tokens", 0)
UncachedTokens(k) == PromptTokens(k) - CachedTokens(k)
TotalTokens(k) == parse_calls[k].result.response.total_tokens
EstimatedCost(k) == parse_calls[k].result.response.estimated_cost

SameTokenCounts(j, k) ==
    /\ PromptTokens(j) = PromptTokens(k)
    /\ CompletionTokens(j) = CompletionTokens(k)
    /\ CachedTokens(j) = CachedTokens(k)

\* no one of the three counts of response k is below that of response j
NoCountLower(j, k) ==
    /\ UncachedTokens(j) <= UncachedTokens(k)
    /\ CachedTokens(j) <= CachedTokens(k)
    /\ CompletionTokens(j) <= CompletionTokens(k)

\* C19 as stated: for one provider instance the estimated cost is never
\* negative, equal for equal token counts, and strictly higher for every
\* response with more total tokens.
C19_IncreasesWithTotalTokens ==
    \A j, k \in 1..Len(parse_calls) :
        /\ EstimatedCost(j) >= 0
        /\ SameTokenCounts(j, k) => (EstimatedCost(j) = EstimatedCost(k))
        /\ (TotalTokens(j) < TotalTokens(k)) => (EstimatedCost(j) < EstimatedCost(k))

\* C19 (cost monotonicity): for one provider instance and token counts whose
\* cache-hit count is within the prompt count, the estimated cost is never
\* negative, is equal for equal prompt, completion and cache-hit counts, and
\* is strictly higher for a response with more total tokens when no one of
\* its uncached-prompt, cache-hit and completion counts is lower.
C19_CostMonotone ==
    \A j, k \in 1..Len(parse_calls) :
        /\ EstimatedCost(j) >= 0
        /\ SameTokenCounts(j, k) => (EstimatedCost(j) = EstimatedCost(k))
        /\ (TotalTokens(j) < TotalTokens(k) /\ NoCountLower(j, k)) =>
              (EstimatedCost(j) < EstimatedCost(k))

C19_Witness ==
    /\ pc = "PARSE_DONE"
    /\ parse_calls[1].self.provider_name = "deepseek"
    /\ CachedTokens(1) > 0
    /\ CompletionTokens(1) < CompletionTokens(2)
    /\ TotalTokens(1) < TotalTokens(2)
    /\ NoCountLower(1, 2)
    /\ 0 < EstimatedCost(1)
    /\ EstimatedCost(1) < EstimatedCost(2)

(***************************************************************************)
(* Properties of SpecContext                                               *)
(***************************************************************************)
Min(a, b) == IF a <= b THEN a ELSE b

\* C25 (context window): the message list of the turn-1 call is the system
\* prompt, then the most recent min(10, length) entries of
\* conversation_history in their order, an entry whose role is neither user
\* nor assistant sent with role user, then the new customer message as the
\* last user message; nothing else.
C25_ContextWindow ==
    ctx.done =>
        LET h == ctx.conversation_history
            m == ctx.messages
            kept == Min(10, Len(h))
            dropped == Len(h) - kept IN
        /\ Len(m) = kept + 2
        /\ m[1].role = "system"
        /\ m[1].content = get_system_prompt(AdditionalContext, ctx.knowledge_context)
        /\ \A k \in 1..kept :
              /\ m[1 + k].content = h[dropped + k].content
              /\ m[1 + k].role = IF h[dropped + k].role = "assistant" THEN "assistant"
                                 ELSE "user"
        /\ m[Len(m)] = [role |-> "user", content |-> ctx.customer_message]

C25_Witness ==
    /\ ctx.done
    /\ Len(ctx.conversation_history) = 12
    /\ Len(ctx.messages) = 12
    /\ ctx.conversation_history[3].role = "system"
    /\ ctx.messages[2].content = HistoryContent(3)
    /\ ctx.messages[2].role = "user"
    /\ ctx.messages[11].content = HistoryContent(12)

Sections(prompt) == [k \in 1..Len(prompt) |-> prompt[k].section]

\* C26 (prompt section order): for every combination of an excerpt and custom
\* instructions, each present or absent (None or empty), get_system_prompt
\* emits the persona, the current time, then exactly one of the
\* knowledge-base block (carrying the excerpt, when one is supplied) and the
\* no-excerpt instruction block (when none is), and the custom instructions
\* if and only if supplied, after every other section.
C26_SectionOrder ==
    ctx.done =>
        LET prompt == ctx.system_prompt
            kb == Truthy(ctx.knowledge_context)
            custom == Truthy(ctx.additional_context)
            head == <<"base", "current_time",
                      IF kb THEN "knowledge_base" ELSE "no_knowledge_base">> IN
        /\ Sections(prompt) =
              IF custom THEN Append(head, "additional_instructions") ELSE head
        /\ kb => (prompt[3].text = ctx.knowledge_context)
        /\ custom => (prompt[Len(prompt)].text = ctx.additional_context)

C26_Witness ==
    /\ ctx.done
    /\ ctx.knowledge_context = KbBlock
    /\ ctx.additional_context = AdditionalContext
    /\ Sections(ctx.system_prompt) =
          <<"base", "current_time", "knowledge_base", "additional_instructions">>

(***************************************************************************)
(* Properties of SpecConcurrent                                            *)
(***************************************************************************)
\* replies of the orchestrator among the AI-authored messages
AiGenerated(msgs) ==
    Cardinality({i \in 1..Len(msgs) :
                    msgs[i].sender_type = "ai" /\ msgs[i].content = Turn1Text})

\* C27 as stated: with customer messages of one conversation processed
\* concurrently, the orchestrator invocations and the AI-generated replies
\* of the conversation still never exceed the tenant's max_ai_turns.
C27_BreakerUnderConcurrency ==
    /\ orchestrator_calls <= tenant.max_ai_turns
    /\ AiGenerated(messages) <= tenant.max_ai_turns
====
